---- MODULE Spec2Model ----
(***************************************************************************)
(* Model of the retrieval-and-generation pipeline of Autonomous-QA-Agent.  *)
(*                                                                         *)
(* Part 1: VectorStore (src/vector_store.py) over a Qdrant backend.  The   *)
(* backend is the collection (present or absent, and its points); every    *)
(* client call may raise, and a call on an absent collection does raise.   *)
(* A raising call is taken to have had no effect on the backend.           *)
(* Part 2: DocumentProcessor (src/document_processor.py).                  *)
(* Part 3: LLMClient (src/llm_client.py).                                  *)
(* Part 4: SeleniumScriptGenerator (src/selenium_generator.py).            *)
(* Part 5: the Streamlit session (src/app.py) over parts 1 to 4.           *)
(***************************************************************************)
EXTENDS Integers, Sequences, FiniteSets, TLC

VARIABLES
    collection_exists,  \* the backend lists settings.QDRANT_COLLECTION_NAME
    points,             \* the collection's points: point id -> payload
    num_adds,           \* add_documents calls so far (epoch of the uuid4 ids)
    op,                 \* the last VectorStore operation and its arguments
    ret,                \* what that operation returned
    calls,              \* the backend / model calls that operation made, in order
    dp_files,           \* the file list handed to process_multiple_documents
    dp_ret,             \* what process_multiple_documents returned
    dp_pc,              \* "idle"; "ready" before and "done" after that call; "chunked"
    ct_text,            \* the text last handed to chunk_text
    ct_ret,             \* what chunk_text returned for it
    sg_pc,              \* "idle", or which operation of parts 3 and 4 has run
    sg_results,         \* what vector_store.search returns to get_html_content
    sg_llm,             \* the language-model backend and what its HTTP endpoint does
    sg_html,            \* what get_html_content returned
    sg_ret,             \* what generate_selenium_script returned
    sg_calls,           \* the collaborators generate_selenium_script called, in order
    sg_script,          \* the script handed to validate_script
    sg_valid,           \* what validate_script returned
    sg_soup,            \* the elements BeautifulSoup finds in the markup handed to
                        \* extract_html_structure, in document order
    sg_structure,       \* what extract_html_structure returned
    llm_ret,            \* what LLMClient.generate returned
    llm_requests,       \* the HTTP requests LLMClient.generate issued, in order
    knowledge_base_built,   \* st.session_state.knowledge_base_built
    uploaded_files,         \* st.session_state.uploaded_files
    test_cases,             \* st.session_state.test_cases
    selected_test_case,     \* st.session_state.selected_test_case
    generated_script,       \* st.session_state.generated_script
    built_documents,        \* history: the chunks of the last Build that succeeded
    script_test_case        \* history: the test case generated_script was made for

storeVars == <<collection_exists, points, num_adds, op, ret, calls>>
dpVars == <<dp_files, dp_ret, dp_pc, ct_text, ct_ret>>
sgVars == <<sg_pc, sg_results, sg_llm, sg_html, sg_ret, sg_calls, sg_script, sg_valid,
            sg_soup, sg_structure, llm_ret, llm_requests>>
appVars == <<knowledge_base_built, uploaded_files, test_cases, selected_test_case,
             generated_script, built_documents, script_test_case>>
vars == <<collection_exists, points, num_adds, op, ret, calls,
          dp_files, dp_ret, dp_pc, ct_text, ct_ret,
          sg_pc, sg_results, sg_llm, sg_html, sg_ret, sg_calls, sg_script, sg_valid,
          sg_soup, sg_structure, llm_ret, llm_requests,
          knowledge_base_built, uploaded_files, test_cases, selected_test_case,
          generated_script, built_documents, script_test_case>>

(***************************************************************************)
(* Bounds and program constants                                            *)
(***************************************************************************)
MaxAdds == 1        \* add_documents calls in one behaviour
MaxBatches == 2     \* the largest upload spans this many batches
MaxOld == 2         \* points the collection may hold when the session starts
batch_size == 100   \* vector_store.py:168

None == "None"
EmptyPoints == [i \in {} |-> None]

\* Python's dict.get(key, default) on a record
Get(d, k, default) == IF k \in DOMAIN d THEN d[k] ELSE default

Min(a, b) == IF a < b THEN a ELSE b

\* the values of f at lo..hi as a sequence
Slice(s, lo, hi) == [j \in 1..(Min(hi, Len(s)) - lo + 1) |-> s[lo + j - 1]]

\* one client call in the log of an operation, and whether it raised
Call(name, raised) == [call |-> name, raised |-> raised]

CallsOf(cs, name) == SelectSeq(cs, LAMBDA c : c.call = name)

(***************************************************************************)
(* Inputs: lists of document chunks                                        *)
(***************************************************************************)
\* n chunks of one upload, tagged b
Documents(b, n) ==
    [i \in 1..n |-> [content |-> <<b, i>>,
                     metadata |-> [source |-> b, chunk_id |-> i - 1, total_chunks |-> n]]]

DocCounts == {0, 1, batch_size, batch_size + 1, (MaxBatches - 1) * batch_size + 1}

(***************************************************************************)
(* VectorStore.create_collection                                           *)
(* F names the client calls that raise: F.list (get_collections), F.del    *)
(* (delete_collection), F.enc (embedding_model.encode), F.create           *)
(* (client.create_collection).                                             *)
(* The first call that raises ends the operation, so at most one is named.  *)
(***************************************************************************)
NoCreateFault == [list |-> FALSE, del |-> FALSE, enc |-> FALSE, create |-> FALSE]
CreateFaults ==
    {[NoCreateFault EXCEPT ![k] = TRUE] : k \in {"list", "del", "enc", "create"}}
    \cup {NoCreateFault}

\* a variant that recreates an existing collection whether or not it is asked to
ShouldDelete_unconditional(collection_exists_, force_recreate) == collection_exists_

\* a variant that keeps an existing collection even when asked to recreate it
ShouldDelete_never(collection_exists_, force_recreate) == FALSE

\* "if collection_exists and force_recreate:"
ShouldDelete(collection_exists_, force_recreate) == collection_exists_ /\ force_recreate

create_collection(exists, pts, force_recreate, F) ==
    LET c1 == <<Call("get_collections", F.list)>>
        failed(c, e, p) == [ret |-> FALSE, exists |-> e, points |-> p, calls |-> c]
    IN  IF F.list THEN failed(c1, exists, pts)
        ELSE
        LET deleting == ShouldDelete(exists, force_recreate)
            c2 == IF deleting THEN c1 \o <<Call("delete_collection", F.del)>> ELSE c1
        IN  IF deleting /\ F.del THEN failed(c2, exists, pts)
            ELSE
            LET exists2 == IF deleting THEN FALSE ELSE exists
                pts2 == IF deleting THEN EmptyPoints ELSE pts
            IN  IF ~exists2
                THEN LET c3 == c2 \o <<Call("encode", F.enc)>>
                     IN  IF F.enc THEN failed(c3, exists2, pts2)
                         ELSE LET c4 == c3 \o <<Call("create_collection", F.create)>>
                              IN  IF F.create THEN failed(c4, exists2, pts2)
                                  ELSE [ret |-> TRUE, exists |-> TRUE,
                                        points |-> EmptyPoints, calls |-> c4]
                ELSE [ret |-> TRUE, exists |-> exists2, points |-> pts2, calls |-> c2]

(***************************************************************************)
(* VectorStore.generate_embeddings and VectorStore.add_documents           *)
(***************************************************************************)
\* the embedding of a text: deterministic for a fixed model
Embed(text) == <<"vec", text>>

\* a variant that numbers the points of every call from the same start
Uuid_by_position(epoch, i) == <<0, i>>

\* str(uuid.uuid4()): fresh for every point of every call
Uuid(epoch, i) == <<epoch, i>>

\* a variant that hands back placeholder vectors when the model fails
generate_embeddings_placeholder(texts, encRaises) ==
    [i \in 1..Len(texts) |-> IF encRaises THEN <<"vec", 0>> ELSE Embed(texts[i])]

generate_embeddings(texts, encRaises) ==
    IF encRaises THEN <<>> ELSE [i \in 1..Len(texts) |-> Embed(texts[i])]

\* the points of the add_documents call number epoch: zip(documents, embeddings)
PointStructs(epoch, documents, embeddings) ==
    [i \in 1..Min(Len(documents), Len(embeddings)) |->
        [id |-> Uuid(epoch, i),
         vector |-> embeddings[i],
         payload |-> [content |-> documents[i].content,
                      metadata |-> documents[i].metadata]]]

\* the backend's upsert: a point replaces the stored point of the same id
Upsert(pts, batch) ==
    LET ids == {batch[j].id : j \in 1..Len(batch)}
        last(i) == LET at == {j \in 1..Len(batch) : batch[j].id = i}
                   IN  CHOOSE j \in at : \A h \in at : h <= j
    IN  [i \in (DOMAIN pts) \cup ids |->
            IF i \in ids THEN batch[last(i)].payload ELSE pts[i]]

\* a variant that logs a failed batch and goes on with the next one
RECURSIVE upsert_batches_keep_going(_, _, _, _, _, _)
upsert_batches_keep_going(i, all, exists, pts, cs, failAt) ==
    IF i >= Len(all)
    THEN [ret |-> TRUE, points |-> pts, calls |-> cs]
    ELSE LET batch == Slice(all, i + 1, i + batch_size)
             raises == ~exists \/ failAt = i \div batch_size + 1
             cs2 == Append(cs, [call |-> "upsert", raised |-> raises, points |-> batch])
         IN  upsert_batches_keep_going(i + batch_size, all, exists,
                                       IF raises THEN pts ELSE Upsert(pts, batch),
                                       cs2, failAt)

\* a variant whose loop steps one past the batch it has just sent
RECURSIVE upsert_batches_stride(_, _, _, _, _, _)
upsert_batches_stride(i, all, exists, pts, cs, failAt) ==
    IF i >= Len(all)
    THEN [ret |-> TRUE, points |-> pts, calls |-> cs]
    ELSE LET batch == Slice(all, i + 1, i + batch_size)
             raises == ~exists \/ failAt = i \div batch_size + 1
             cs2 == Append(cs, [call |-> "upsert", raised |-> raises, points |-> batch])
         IN  IF raises
             THEN [ret |-> FALSE, points |-> pts, calls |-> cs2]
             ELSE upsert_batches_stride(i + batch_size + 1, all, exists,
                                        Upsert(pts, batch), cs2, failAt)

\* the loop "for i in range(0, len(points), batch_size)"; the failAt-th upsert raises
RECURSIVE upsert_batches(_, _, _, _, _, _)
upsert_batches(i, all, exists, pts, cs, failAt) ==
    IF i >= Len(all)
    THEN [ret |-> TRUE, points |-> pts, calls |-> cs]
    ELSE LET batch == Slice(all, i + 1, i + batch_size)
             raises == ~exists \/ failAt = i \div batch_size + 1
             cs2 == Append(cs, [call |-> "upsert", raised |-> raises, points |-> batch])
         IN  IF raises
             THEN [ret |-> FALSE, points |-> pts, calls |-> cs2]
             ELSE upsert_batches(i + batch_size, all, exists, Upsert(pts, batch), cs2, failAt)

\* the encode call raises, or the failAt-th upsert does (0: none)
AddFaults == [enc : {TRUE}, failAt : {0}] \cup [enc : {FALSE}, failAt : 0..MaxBatches]

add_documents(exists, pts, epoch, documents, F) ==
    IF Len(documents) = 0
    THEN [ret |-> FALSE, points |-> pts, calls |-> <<>>]
    ELSE LET texts == [i \in 1..Len(documents) |-> documents[i].content]
             embeddings == generate_embeddings(texts, F.enc)
             c1 == <<Call("encode", F.enc)>>
         IN  IF Len(embeddings) = 0
             THEN [ret |-> FALSE, points |-> pts, calls |-> c1]
             ELSE upsert_batches(0, PointStructs(epoch, documents, embeddings),
                                 exists, pts, c1, F.failAt)

(***************************************************************************)
(* VectorStore.search                                                      *)
(***************************************************************************)
\* a filter_dict: None (given = FALSE) or a dict of key -> value
NoFilter == [given |-> FALSE, items |-> <<>>]
FilterDict(items) == [given |-> TRUE, items |-> items]

\* a variant that tests "filter_dict is not None"
Truthy_not_none(filter_dict) == filter_dict.given

\* "if filter_dict:" - None and the empty dict are both falsy
Truthy(filter_dict) == filter_dict.given /\ Len(filter_dict.items) > 0

\* filter values carry their Python type; MatchValue takes bool, int and str only
IntValue(v) == [type |-> "int", v |-> v]
FloatValue(v) == [type |-> "float", v |-> v]

\* FieldCondition(key=f"metadata.{key}", match=MatchValue(value=value)) raises
\* for a value that is no bool, int or str
ConditionRaises(item) == item.value.type = "float"

FilterDicts ==
    { NoFilter,
      FilterDict(<<>>),
      FilterDict(<<[key |-> "chunk_id", value |-> IntValue(0)],
                   [key |-> "source", value |-> IntValue(1)]>>),
      FilterDict(<<[key |-> "chunk_id", value |-> FloatValue(0)]>>) }

TopKs == {5}

\* the Filter the code hands to client.search: NoFilter stands for None
BuildFilter(filter_dict) ==
    IF ~Truthy(filter_dict) THEN NoFilter
    ELSE IF \E j \in 1..Len(filter_dict.items) : ConditionRaises(filter_dict.items[j])
         THEN NoFilter
         ELSE FilterDict([j \in 1..Len(filter_dict.items) |->
                             [key |-> filter_dict.items[j].key,
                              value |-> filter_dict.items[j].value]])

\* the backend's filter: every condition matches payload.metadata
Matches(payload, search_filter) ==
    \A j \in 1..Len(search_filter.items) :
        /\ search_filter.items[j].key \in DOMAIN payload.metadata
        /\ payload.metadata[search_filter.items[j].key] = search_filter.items[j].value.v

\* the backend's ranking stands in for cosine similarity: a fixed total order
IdLess(a, b) == a[1] < b[1] \/ (a[1] = b[1] /\ a[2] < b[2])

RECURSIVE Ranked(_, _)
Ranked(ids, k) ==
    IF k = 0 \/ ids = {} THEN <<>>
    ELSE LET best == CHOOSE a \in ids : \A b \in ids \ {a} : IdLess(a, b)
         IN  <<best>> \o Ranked(ids \ {best}, k - 1)

\* client.search(...): the top limit points that pass the filter
BackendSearch(pts, limit, search_filter) ==
    LET hits == {i \in DOMAIN pts : Matches(pts[i], search_filter)}
        order == Ranked(hits, limit)
    IN  [j \in 1..Len(order) |-> [id |-> order[j], payload |-> pts[order[j]]]]

\* the loop building formatted_results (the score is left out of the model)
FormatResults(results) ==
    [j \in 1..Len(results) |-> [content |-> results[j].payload.content,
                                metadata |-> results[j].payload.metadata]]

\* per attempt, the call that raises; a second attempt only follows a failed first
SearchFaults ==
    {F \in [enc : [1..2 -> BOOLEAN], srch : [1..2 -> BOOLEAN]] :
        /\ \A a \in 1..2 : ~(F.enc[a] /\ F.srch[a])
        /\ (F.enc[2] \/ F.srch[2]) => (F.enc[1] \/ F.srch[1])}

\* attempt counts the invocations of search: the call is 1, its retry is 2
RECURSIVE search(_, _, _, _, _, _, _)
search(exists, pts, query, top_k, filter_dict, attempt, F) ==
    LET handler(cs) ==
            IF Truthy(filter_dict)
            THEN LET r == search(exists, pts, query, top_k, NoFilter, attempt + 1, F)
                 IN  [ret |-> r.ret, calls |-> cs \o r.calls]
            ELSE [ret |-> <<>>, calls |-> cs]
        c1 == <<[call |-> "encode", raised |-> F.enc[attempt], text |-> query]>>
    IN  IF F.enc[attempt] THEN handler(c1)
        ELSE
        LET search_filter == BuildFilter(filter_dict)
            raises == ~exists \/ F.srch[attempt]
            c2 == Append(c1, [call |-> "search", raised |-> raises,
                              query_vector |-> Embed(query), limit |-> top_k,
                              query_filter |-> search_filter])
        IN  IF raises THEN handler(c2)
            ELSE [ret |-> FormatResults(BackendSearch(pts, top_k, search_filter)),
                  calls |-> c2]

(***************************************************************************)
(* VectorStore.get_collection_info                                         *)
(***************************************************************************)
collection_name == "qa_agent_docs"

\* what requests.get does: raise, or answer with a status code and a body.
\* body: "unparseable" (response.json() raises), "no_result" (a dict without
\* 'result'), "result_null" ('result' is no dict) or "result".
HttpOutcomes(exists) ==
    [raises : {TRUE}, status_code : {0}, body : {"unparseable"}]
    \cup [raises : {FALSE}, status_code : {404, 500}, body : {"unparseable", "result"}]
    \cup (IF exists
          THEN [raises : {FALSE}, status_code : {200},
                body : {"unparseable", "no_result", "result_null", "result"}]
          ELSE {})

get_collection_info(pts, http) ==
    LET defaults == [name |-> collection_name, points_count |-> 0,
                     vectors_count |-> 0, status |-> "unknown"]
        c1 == <<[call |-> "requests.get", raised |-> http.raises]>>
    IN  IF http.raises THEN [ret |-> defaults, calls |-> c1]
        ELSE IF http.status_code = 200
        THEN IF http.body \in {"unparseable", "result_null"}
             THEN [ret |-> defaults, calls |-> c1]
             ELSE LET result == IF http.body = "result"
                                THEN [points_count |-> Cardinality(DOMAIN pts),
                                      vectors_count |-> Cardinality(DOMAIN pts),
                                      status |-> "green"]
                                ELSE [x \in {} |-> None]
                  IN  [ret |-> [name |-> collection_name,
                                points_count |-> Get(result, "points_count", 0),
                                vectors_count |-> Get(result, "vectors_count", 0),
                                status |-> Get(result, "status", "unknown")],
                       calls |-> c1]
        ELSE [ret |-> [name |-> collection_name, points_count |-> 0], calls |-> c1]

(***************************************************************************)
(* VectorStore.clear_collection                                            *)
(***************************************************************************)
ClearFaults ==
    [del : {TRUE}, create : {NoCreateFault}] \cup [del : {FALSE}, create : CreateFaults]

clear_collection(exists, pts, F) ==
    LET c1 == <<Call("delete_collection", F.del)>>
    IN  IF F.del
        THEN [ret |-> FALSE, exists |-> exists, points |-> pts, calls |-> c1]
        ELSE LET r == create_collection(FALSE, EmptyPoints, FALSE, F.create)
             IN  [ret |-> TRUE, exists |-> r.exists, points |-> r.points,
                  calls |-> c1 \o r.calls]

(***************************************************************************)
(* Specification of the vector store                                       *)
(***************************************************************************)
\* the collection outlives a session: it may be absent, empty, or hold the points
\* of an earlier session
OldPoints(n) ==
    [i \in {Uuid(0, j) : j \in 1..n} |->
        [content |-> <<0, i[2]>>,
         metadata |-> [source |-> 0, chunk_id |-> i[2] - 1, total_chunks |-> n]]]

DocsIdle ==
    /\ dp_files = <<>>
    /\ dp_ret = <<>>
    /\ dp_pc = "idle"
    /\ ct_text = <<>>
    /\ ct_ret = <<>>

\* an Optional[str]: Python's None, or the string text
NoneStr == [none |-> TRUE, text |-> <<>>]
Some(text) == [none |-> FALSE, text |-> text]

\* Python's None where the other values are records
NoneValue == [none |-> TRUE]

\* the session state set at lines 243-252
SessionIdle ==
    /\ knowledge_base_built = FALSE
    /\ uploaded_files = <<>>
    /\ test_cases = NoneValue
    /\ selected_test_case = NoneValue
    /\ generated_script = NoneStr
    /\ built_documents = <<>>
    /\ script_test_case = NoneValue

\* nothing of parts 3 and 4 has been given an input or has run
NoLlm == [use_groq |-> FALSE, raises |-> "none", status_code |-> 0, body |-> "none", text |-> <<>>]

SgInputsIdle ==
    /\ sg_results = <<>>
    /\ sg_llm = NoLlm
    /\ sg_script = <<>>
    /\ sg_soup = <<>>

SgOutputsIdle ==
    /\ sg_html = NoneStr
    /\ sg_ret = NoneStr
    /\ sg_calls = <<>>
    /\ sg_valid = None
    /\ sg_structure = None
    /\ llm_ret = NoneStr
    /\ llm_requests = <<>>

SgIdle ==
    /\ sg_pc = "idle"
    /\ SgInputsIdle
    /\ SgOutputsIdle

Init ==
    /\ collection_exists \in BOOLEAN
    /\ points \in {OldPoints(n) : n \in (IF collection_exists THEN {0, MaxOld} ELSE {0})}
    /\ num_adds = 0
    /\ op = [name |-> "init"]
    /\ ret = None
    /\ calls = <<>>
    /\ DocsIdle
    /\ SgIdle
    /\ SessionIdle

CreateCollection ==
    \E force_recreate \in BOOLEAN, F \in CreateFaults :
        LET r == create_collection(collection_exists, points, force_recreate, F)
        IN  /\ collection_exists' = r.exists
            /\ points' = r.points
            /\ op' = [name |-> "create_collection", force_recreate |-> force_recreate,
                      existed |-> collection_exists]
            /\ ret' = r.ret
            /\ calls' = r.calls
            /\ UNCHANGED <<num_adds, dpVars, sgVars, appVars>>

AddDocuments ==
    /\ num_adds < MaxAdds
    /\ \E n \in DocCounts, F \in AddFaults :
        LET r == add_documents(collection_exists, points, num_adds + 1,
                               Documents(num_adds + 1, n), F)
        IN  /\ points' = r.points
            /\ num_adds' = num_adds + 1
            /\ op' = [name |-> "add_documents", n |-> n, tag |-> num_adds + 1]
            /\ ret' = r.ret
            /\ calls' = r.calls
            /\ UNCHANGED <<collection_exists, dpVars, sgVars, appVars>>

Search ==
    \E top_k \in TopKs, filter_dict \in FilterDicts, F \in SearchFaults :
        LET r == search(collection_exists, points, "q", top_k, filter_dict, 1, F)
        IN  /\ op' = [name |-> "search", top_k |-> top_k, filter_dict |-> filter_dict]
            /\ ret' = r.ret
            /\ calls' = r.calls
            /\ UNCHANGED <<collection_exists, points, num_adds, dpVars, sgVars, appVars>>

GetCollectionInfo ==
    \E http \in HttpOutcomes(collection_exists) :
        LET r == get_collection_info(points, http)
        IN  /\ op' = [name |-> "get_collection_info", http |-> http]
            /\ ret' = r.ret
            /\ calls' = r.calls
            /\ UNCHANGED <<collection_exists, points, num_adds, dpVars, sgVars, appVars>>

ClearCollection ==
    \E F \in ClearFaults :
        LET r == clear_collection(collection_exists, points, F)
        IN  /\ collection_exists' = r.exists
            /\ points' = r.points
            /\ op' = [name |-> "clear_collection"]
            /\ ret' = r.ret
            /\ calls' = r.calls
            /\ UNCHANGED <<num_adds, dpVars, sgVars, appVars>>

Next ==
    \/ CreateCollection
    \/ AddDocuments
    \/ Search
    \/ GetCollectionInfo
    \/ ClearCollection

Spec == Init /\ [][Next]_vars

(***************************************************************************)
(* DocumentProcessor (src/document_processor.py).  A text is a sequence of *)
(* one-character strings.                                                  *)
(***************************************************************************)
IsSpace(c) == c \in {" ", "\n", "\t", "\r"}

RECURSIVE LStrip(_)
LStrip(s) == IF s # <<>> /\ IsSpace(Head(s)) THEN LStrip(Tail(s)) ELSE s

RECURSIVE RStrip(_)
RStrip(s) == IF s # <<>> /\ IsSpace(s[Len(s)]) THEN RStrip(SubSeq(s, 1, Len(s) - 1)) ELSE s

\* str.strip()
Strip(s) == RStrip(LStrip(s))

\* separator.join(parts)
RECURSIVE Join(_, _)
Join(parts, separator) ==
    IF parts = <<>> THEN <<>>
    ELSE IF Len(parts) = 1 THEN parts[1]
    ELSE parts[1] \o separator \o Join(Tail(parts), separator)

Digit(d) == <<"0", "1", "2", "3", "4", "5", "6", "7", "8", "9">>[d + 1]

\* str(n) for n >= 0
RECURSIVE Str(_)
Str(n) == IF n < 10 THEN <<Digit(n)>> ELSE Str(n \div 10) \o <<Digit(n % 10)>>

(***************************************************************************)
(* The text splitter built in DocumentProcessor.__init__: langchain's      *)
(* RecursiveCharacterTextSplitter with separators "\n\n", "\n", " ", "",   *)
(* length_function=len, and the defaults keep_separator=True and           *)
(* strip_whitespace=True.  settings.CHUNK_SIZE and settings.CHUNK_OVERLAP  *)
(* come from the environment (500 and 50 when unset); the model runs small *)
(* settings.                                                               *)
(***************************************************************************)
CHUNK_SIZE == 3
CHUNK_OVERLAP == 1

separators == << <<"\n", "\n">>, <<"\n">>, <<" ">>, <<>> >>

StartsAt(text, sep, i) ==
    /\ i + Len(sep) - 1 <= Len(text)
    /\ SubSeq(text, i, i + Len(sep) - 1) = sep

\* re.search(re.escape(sep), text)
Contains(text, sep) == \E i \in 1..Len(text) : StartsAt(text, sep, i)

\* the pieces between the non-overlapping matches re.split finds from start on
RECURSIVE SplitOn(_, _, _)
SplitOn(text, sep, start) ==
    LET found == {i \in start..Len(text) : StartsAt(text, sep, i)}
    IN  IF found = {} THEN <<SubSeq(text, start, Len(text))>>
        ELSE LET i == CHOOSE h \in found : \A g \in found : h <= g
             IN  <<SubSeq(text, start, i - 1)>> \o SplitOn(text, sep, i + Len(sep))

\* _split_text_with_regex(text, separator, keep_separator=True): every piece
\* but the first keeps the separator in front of it; empty pieces are dropped
split_text_with_regex(text, separator) ==
    LET splits ==
            IF separator = <<>> THEN [i \in 1..Len(text) |-> <<text[i]>>]
            ELSE LET parts == SplitOn(text, separator, 1)
                 IN  [j \in 1..Len(parts) |->
                         IF j = 1 THEN parts[1] ELSE separator \o parts[j]]
    IN  SelectSeq(splits, LAMBDA x : x # <<>>)

\* _join_docs: the joined text stripped, or None when nothing is left
join_docs(docs, separator) ==
    LET text == Strip(Join(docs, separator))
    IN  [none |-> text = <<>>, text |-> text]

\* a variant that keeps every piece, so that chunks keep growing
PopFront_keep_all(current_doc, total, len, seplen) ==
    [current_doc |-> current_doc, total |-> total]

\* the while loop of _merge_splits: drop pieces from the front of current_doc
RECURSIVE PopFront(_, _, _, _)
PopFront(current_doc, total, len, seplen) ==
    IF \/ total > CHUNK_OVERLAP
       \/ (/\ total + len + (IF Len(current_doc) > 0 THEN seplen ELSE 0) > CHUNK_SIZE
           /\ total > 0)
    THEN PopFront(Tail(current_doc),
                  total - (Len(current_doc[1]) + (IF Len(current_doc) > 1 THEN seplen ELSE 0)),
                  len, seplen)
    ELSE [current_doc |-> current_doc, total |-> total]

\* one pass of the for loop of _merge_splits, for the split d
MergeStep(st, d, separator) ==
    LET len == Len(d)
        seplen == Len(separator)
        flush == /\ st.total + len + (IF Len(st.current_doc) > 0 THEN seplen ELSE 0)
                        > CHUNK_SIZE
                 /\ Len(st.current_doc) > 0
        doc == join_docs(st.current_doc, separator)
        docs2 == IF flush /\ ~doc.none THEN Append(st.docs, doc.text) ELSE st.docs
        kept == IF flush THEN PopFront(st.current_doc, st.total, len, seplen)
                ELSE [current_doc |-> st.current_doc, total |-> st.total]
        current2 == Append(kept.current_doc, d)
    IN  [docs |-> docs2, current_doc |-> current2,
         total |-> kept.total + len + (IF Len(current2) > 1 THEN seplen ELSE 0)]

\* the for loop of _merge_splits over splits[lo..hi], run as two halves one
\* after the other to keep the evaluation shallow (the test on total makes the
\* first half be evaluated before the second is entered)
RECURSIVE MergeLoop(_, _, _, _, _)
MergeLoop(splits, lo, hi, separator, st) ==
    IF lo > hi THEN st
    ELSE IF lo = hi THEN MergeStep(st, splits[lo], separator)
    ELSE LET mid == (lo + hi) \div 2
             first == MergeLoop(splits, lo, mid, separator, st)
         IN  IF first.total >= 0
             THEN MergeLoop(splits, mid + 1, hi, separator, first)
             ELSE first

merge_splits(splits, separator) ==
    LET st == MergeLoop(splits, 1, Len(splits), separator,
                        [docs |-> <<>>, current_doc |-> <<>>, total |-> 0])
        doc == join_docs(st.current_doc, separator)
    IN  IF doc.none THEN st.docs ELSE Append(st.docs, doc.text)

\* the separator _split_text settles on: the first that is "" or occurs in text
PickSeparator(text, seps) ==
    LET hits == {i \in 1..Len(seps) : seps[i] = <<>> \/ Contains(text, seps[i])}
    IN  IF hits = {} THEN [separator |-> seps[Len(seps)], new_separators |-> <<>>]
        ELSE LET i == CHOOSE h \in hits : \A g \in hits : h <= g
             IN  [separator |-> seps[i],
                  new_separators |-> IF seps[i] = <<>> THEN <<>>
                                     ELSE SubSeq(seps, i + 1, Len(seps))]

RECURSIVE split_text_rec(_, _)

\* final_chunks extended by the merged _good_splits, if there are any
Flushed(st) ==
    IF st.good_splits # <<>>
    THEN st.final_chunks \o merge_splits(st.good_splits, <<>>)
    ELSE st.final_chunks

\* one pass of the for loop of _split_text, for the split s; merging uses the
\* separator "" because keep_separator is True
SplitStep(st, s, new_separators) ==
    IF Len(s) < CHUNK_SIZE
    THEN [good_splits |-> Append(st.good_splits, s), final_chunks |-> st.final_chunks]
    ELSE [good_splits |-> <<>>,
          final_chunks |-> Flushed(st) \o (IF new_separators = <<>> THEN <<s>>
                                           ELSE split_text_rec(s, new_separators))]

\* the for loop of _split_text over splits[lo..hi], run as two halves one after
\* the other to keep the evaluation shallow (the test on good_splits makes the
\* first half be evaluated before the second is entered)
RECURSIVE SplitLoop(_, _, _, _, _)
SplitLoop(splits, lo, hi, new_separators, st) ==
    IF lo > hi THEN st
    ELSE IF lo = hi THEN SplitStep(st, splits[lo], new_separators)
    ELSE LET mid == (lo + hi) \div 2
             first == SplitLoop(splits, lo, mid, new_separators, st)
         IN  IF Len(first.good_splits) >= 0
             THEN SplitLoop(splits, mid + 1, hi, new_separators, first)
             ELSE first

\* RecursiveCharacterTextSplitter._split_text
split_text_rec(text, seps) ==
    LET pick == PickSeparator(text, seps)
        splits == split_text_with_regex(text, pick.separator)
    IN  Flushed(SplitLoop(splits, 1, Len(splits), pick.new_separators,
                          [good_splits |-> <<>>, final_chunks |-> <<>>]))

split_text(text) == split_text_rec(text, separators)

(***************************************************************************)
(* DocumentProcessor.chunk_text                                            *)
(***************************************************************************)
\* a variant that numbers the chunks from 1
ChunkDoc_one_based(chunk, metadata, i, n) ==
    [content |-> chunk,
     metadata |-> [chunk_id |-> i + 1, total_chunks |-> n] @@ metadata]

\* the dict built for chunk number i (from 0) of n: {**metadata, chunk_id, total_chunks}
ChunkDoc(chunk, metadata, i, n) ==
    [content |-> chunk,
     metadata |-> [chunk_id |-> i, total_chunks |-> n] @@ metadata]

chunk_text(text, metadata) ==
    LET chunks == split_text(text)
    IN  [i \in 1..Len(chunks) |-> ChunkDoc(chunks[i], metadata, i - 1, Len(chunks))]

(***************************************************************************)
(* Text extraction.  A file is what is on disk under file_path: whether it *)
(* opens and decodes (readable), whether its parser accepts it             *)
(* (wellformed), and what the parsers make of it: body is the content of a *)
(* txt or html file, the text markdown and BeautifulSoup render from an md *)
(* file, the json.dumps(indent=2) text of a json file; pages are the page  *)
(* texts of a pdf; title and visible are the <title> and the get_text() of *)
(* an html file.                                                           *)
(***************************************************************************)
PageHead == <<"\n", "-", "-", "-", " ", "P", "a", "g", "e", " ">>
PageTail == <<" ", "-", "-", "-", "\n">>
TitlePrefix == <<"T", "i", "t", "l", "e", ":", " ">>
ContentHeader == <<"\n", "C", "o", "n", "t", "e", "n", "t", ":">>
StructureHeader == <<"\n", "-", "-", "-", " ", "H", "T", "M", "L", " ", "S", "t", "r", "u", "c", "t", "u", "r", "e", " ", "-", "-", "-">>

Raise == [raised |-> TRUE, none |-> FALSE, text |-> <<>>]
Return(text) == [raised |-> FALSE, none |-> FALSE, text |-> text]
ReturnNone == [raised |-> FALSE, none |-> TRUE, text |-> <<>>]

extract_txt(file) == IF ~file.readable THEN Raise ELSE Return(file.body)

extract_markdown(file) == IF ~file.readable THEN Raise ELSE Return(file.body)

extract_json(file) ==
    IF ~file.readable \/ ~file.wellformed THEN Raise ELSE Return(file.body)

RECURSIVE PdfText(_, _)
PdfText(pages, page_num) ==
    IF page_num >= Len(pages) THEN <<>>
    ELSE PageHead \o Str(page_num + 1) \o PageTail \o pages[page_num + 1]
         \o PdfText(pages, page_num + 1)

extract_pdf(file) ==
    IF ~file.readable \/ ~file.wellformed THEN Raise ELSE Return(PdfText(file.pages, 0))

extract_html(file) ==
    IF ~file.readable THEN Raise
    ELSE LET text_parts ==
                 (IF file.title.present THEN <<TitlePrefix \o Strip(file.title.text)>>
                  ELSE <<>>)
                 \o <<ContentHeader, file.visible, StructureHeader, file.body>>
         IN  Return(Join(text_parts, <<"\n">>))

extract_text_from_file(file, file_type) ==
    LET r == IF file_type = "txt" THEN extract_txt(file)
             ELSE IF file_type = "md" THEN extract_markdown(file)
             ELSE IF file_type = "json" THEN extract_json(file)
             ELSE IF file_type = "pdf" THEN extract_pdf(file)
             ELSE IF file_type = "html" THEN extract_html(file)
             ELSE ReturnNone
    IN  IF r.raised THEN ReturnNone ELSE r

(***************************************************************************)
(* DocumentProcessor.process_document and process_multiple_documents       *)
(***************************************************************************)
process_document(file, file_name, file_type) ==
    LET text == extract_text_from_file(file, file_type)
    IN  IF text.none \/ text.text = <<>> THEN <<>>
        ELSE chunk_text(text.text,
                        [source |-> file_name, file_type |-> file_type,
                         file_path |-> file.path])

\* a variant that gives up at the first file that yields nothing
RECURSIVE process_multiple_documents_stop(_)
process_multiple_documents_stop(file_list) ==
    IF file_list = <<>> THEN <<>>
    ELSE LET file_info == Head(file_list)
             chunks == process_document(file_info, file_info.name, file_info.type)
         IN  IF chunks = <<>> THEN <<>>
             ELSE chunks \o process_multiple_documents_stop(Tail(file_list))

RECURSIVE process_multiple_documents(_)
process_multiple_documents(file_list) ==
    IF file_list = <<>> THEN <<>>
    ELSE LET file_info == Head(file_list)
         IN  process_document(file_info, file_info.name, file_info.type)
             \o process_multiple_documents(Tail(file_list))

(***************************************************************************)
(* Inputs of the document processor                                        *)
(***************************************************************************)
MaxFiles == 3       \* files in one list
MaxTextLen == 5     \* characters of a text handed to chunk_text

NoTitle == [present |-> FALSE, text |-> <<>>]

File(name, type, readable, wellformed, body) ==
    [name |-> name, type |-> type, path |-> <<"temp_uploads", name>>,
     readable |-> readable, wellformed |-> wellformed, body |-> body,
     pages |-> <<>>, title |-> NoTitle, visible |-> <<>>]

CandidateFiles ==
    { File("notes.txt", "txt", TRUE, TRUE, <<"a", "b", " ", "c", "d", "\n", "\n", "e", "f">>),
      File("broken.txt", "txt", FALSE, TRUE, <<>>),
      File("empty.txt", "txt", TRUE, TRUE, <<>>),
      File("guide.md", "md", TRUE, TRUE, <<"H", "e", "a", "d", "\n", "t", "e", "x", "t">>),
      File("data.json", "json", TRUE, TRUE, <<"{", "\n", " ", " ", "\"", "k", "\"", ":", " ", "1", "\n", "}">>),
      File("bad.json", "json", TRUE, FALSE, <<>>),
      [File("scan.pdf", "pdf", TRUE, TRUE, <<>>) EXCEPT !.pages = <<<<"o", "n", "e">>, <<"t", "w", "o", "\n">>>>],
      File("locked.pdf", "pdf", TRUE, FALSE, <<>>),
      File("report.docx", "docx", TRUE, TRUE, <<"w", "o", "r", "d">>),
      [File("page.html", "html", TRUE, TRUE, <<"<", "h", "t", "m", "l", ">", "<", "t", "i", "t", "l", "e", ">", " ", "T", " ", "<", "/", "t", "i", "t", "l", "e", ">", "<", "a", ">", "x", "<", "/", "a", ">", "<", "/", "h", "t", "m", "l", ">">>)
          EXCEPT !.title = [present |-> TRUE, text |-> <<" ", "T", " ">>], !.visible = <<"T", "\n", "x">>] }

RECURSIVE SeqsUpTo(_, _)
SeqsUpTo(S, n) ==
    IF n = 0 THEN {<<>>}
    ELSE LET shorter == SeqsUpTo(S, n - 1)
         IN  shorter \cup {Append(q, x) : q \in shorter, x \in S}

FileLists == SeqsUpTo(CandidateFiles, MaxFiles)

Alphabet == {"a", " ", "\n"}
Texts == SeqsUpTo(Alphabet, MaxTextLen)

SampleMetadata ==
    [source |-> "notes.txt", file_type |-> "txt", file_path |-> <<"temp_uploads", "notes.txt">>]


(***************************************************************************)
(* Claims about the vector store, checked under Spec                       *)
(***************************************************************************)
Upserts == CallsOf(calls, "upsert")
Encodes == CallsOf(calls, "encode")
Searches == CallsOf(calls, "search")

RECURSIVE Flatten(_)
Flatten(ss) == IF ss = <<>> THEN <<>> ELSE Head(ss) \o Flatten(Tail(ss))

\* the payloads the first k upsert calls of the last operation carried, in order
Upserted(k) ==
    LET all == Flatten([j \in 1..k |-> Upserts[j].points])
    IN  [i \in 1..Len(all) |-> all[i].payload]

Committed(batch) ==
    \A j \in 1..Len(batch) :
        batch[j].id \in DOMAIN points /\ points[batch[j].id] = batch[j].payload

CeilDiv(a, b) == (a + b - 1) \div b

\* C1: when the k-th upsert of add_documents raises, add_documents returns
\* False, the k-th is the last upsert attempted, and batches 1..k-1, which are
\* the first (k-1)*100 documents, are in the collection.
C1_FailedBatchAborts ==
    op.name = "add_documents" =>
        \A k \in 1..Len(Upserts) :
            Upserts[k].raised =>
                /\ ret = FALSE
                /\ k = Len(Upserts)
                /\ \A j \in 1..(k - 1) : ~Upserts[j].raised /\ Committed(Upserts[j].points)
                /\ Upserted(k - 1) =
                       [i \in 1..((k - 1) * batch_size) |-> Documents(op.tag, op.n)[i]]
                /\ \A j \in 1..Len(Upserts[k].points) :
                       Upserts[k].points[j].id \notin DOMAIN points

C1_Witness ==
    /\ op.name = "add_documents"
    /\ op.n > batch_size
    /\ Len(Upserts) = 2
    /\ Upserts[2].raised
    /\ ret = FALSE
    /\ Cardinality(DOMAIN points) >= batch_size

\* C2: a successful add_documents of n >= 1 chunks makes exactly ceil(n/100)
\* upsert calls of at most 100 points each, which carry every chunk exactly once
\* in input order, and the collection grows by exactly n points.
C2_BatchedUpsert ==
    [][(op'.name = "add_documents" /\ ret' = TRUE) =>
          LET ups == CallsOf(calls', "upsert")
              all == Flatten([j \in 1..Len(ups) |-> ups[j].points])
          IN  /\ op'.n >= 1
              /\ Len(ups) = CeilDiv(op'.n, batch_size)
              /\ \A j \in 1..Len(ups) : Len(ups[j].points) \in 1..batch_size
              /\ [i \in 1..Len(all) |-> all[i].payload] = Documents(op'.tag, op'.n)
              /\ Cardinality({all[i].id : i \in 1..Len(all)}) = Len(all)
              /\ Cardinality(DOMAIN points') = Cardinality(DOMAIN points) + op'.n]_vars

C2_Witness ==
    /\ op.name = "add_documents"
    /\ ret = TRUE
    /\ op.n = batch_size + 1
    /\ Len(Upserts) = 2
    /\ Cardinality(DOMAIN points) > op.n

\* C3: when clear_collection returns True the collection exists and is empty,
\* and when its delete step or its recreate step raised it returns False.
C3_ClearSucceedsOnlyWhenEmptied ==
    op.name = "clear_collection" =>
        /\ ret = TRUE => (collection_exists /\ points = EmptyPoints)
        /\ (\E k \in 1..Len(calls) : calls[k].raised) => ret = FALSE

\* C4: create_collection(force_recreate=False) on an existing collection
\* returns True and leaves the points unchanged; the collection is created only
\* when it was absent.
C4_CreateIdempotent ==
    [][(op'.name = "create_collection" /\ ~op'.force_recreate) =>
          /\ collection_exists => (ret' = TRUE /\ points' = points /\ collection_exists')
          /\ CallsOf(calls', "create_collection") # <<>> => ~collection_exists]_vars

\* C4 as amended: it returns True exactly when get_collections did not raise,
\* and whatever it returns the points are unchanged and the collection stays; the
\* collection is created only when it was absent.
C4_CreateIdempotentUnlessListingFails ==
    [][(op'.name = "create_collection" /\ ~op'.force_recreate) =>
          /\ collection_exists =>
                /\ ret' = ~calls'[1].raised
                /\ calls'[1].call = "get_collections"
                /\ Len(calls') = 1
                /\ points' = points
                /\ collection_exists'
          /\ CallsOf(calls', "create_collection") # <<>> => ~collection_exists]_vars

C4_Witness ==
    /\ op.name = "create_collection"
    /\ ~op.force_recreate
    /\ op.existed
    /\ ret = TRUE
    /\ points # EmptyPoints

\* C5: search makes at most two backend search calls; when the attempt with a
\* filter fails there is exactly one more attempt, made with no filter, whose
\* results (the empty list if it fails too) are returned; a failing search that
\* was given no filter is not retried and returns the empty list.
C5_SingleUnfilteredRetry ==
    op.name = "search" =>
        LET failed1 == calls[1].raised \/ (Len(calls) >= 2 /\ calls[2].raised)
            last == calls[Len(calls)]
            filtered == op.filter_dict.given /\ op.filter_dict.items # <<>>
        IN  /\ Len(Searches) <= 2
            /\ Len(Encodes) <= 2
            /\ (filtered /\ failed1) =>
                  /\ Len(Encodes) = 2
                  /\ \A k \in 2..Len(Searches) : Searches[k].query_filter = NoFilter
                  /\ last.call = "search" => last.query_filter = NoFilter
                  /\ ret = IF last.raised THEN <<>>
                           ELSE FormatResults(BackendSearch(points, op.top_k, NoFilter))
            /\ (~filtered /\ failed1) =>
                  /\ Len(Encodes) = 1
                  /\ Len(Searches) <= 1
                  /\ ret = <<>>

C5_Witness ==
    /\ op.name = "search"
    /\ op.filter_dict.items # <<>>
    /\ Len(Searches) = 2
    /\ Searches[1].raised
    /\ Searches[1].query_filter # NoFilter
    /\ ~Searches[2].raised
    /\ Len(ret) > 0

\* C6: when encoding the query raises inside search, search returns the empty
\* list and encode was called exactly once, with or without a filter.
C6_EmbeddingFailureAborts ==
    op.name = "search" =>
        ((\E k \in 1..Len(Encodes) : Encodes[k].raised) =>
            (ret = <<>> /\ Len(Encodes) = 1))

\* C7: on every failure outcome (requests.get raises, a status other than
\* 200, a body that does not parse) get_collection_info returns points_count 0
\* and status 'unknown'.
C7_StatsDefaultsOnFailure ==
    op.name = "get_collection_info" =>
        ((op.http.raises \/ op.http.status_code # 200 \/ op.http.body = "unparseable") =>
            /\ Get(ret, "points_count", 1) = 0
            /\ "status" \in DOMAIN ret
            /\ ret.status = "unknown")

\* C8: only clear_collection and create_collection(force_recreate=True) remove
\* or change a point of the collection; every other operation keeps each point
\* with its payload.
C8_PointsOnlyRemovedByClearOrRecreate ==
    [][~(op'.name = "clear_collection"
         \/ (op'.name = "create_collection" /\ op'.force_recreate)) =>
          \A i \in DOMAIN points : i \in DOMAIN points' /\ points'[i] = points[i]]_vars

C8_Witness ==
    /\ op.name = "add_documents"
    /\ ret = TRUE
    /\ \E i \in DOMAIN points : i[1] = 0
    /\ \E i \in DOMAIN points : i[1] = op.tag

(***************************************************************************)
(* Specifications of the document processor                                *)
(***************************************************************************)
StoreIdle ==
    /\ SessionIdle
    /\ collection_exists = FALSE
    /\ points = EmptyPoints
    /\ num_adds = 0
    /\ op = [name |-> "init"]
    /\ ret = None
    /\ calls = <<>>

InitDocs ==
    /\ StoreIdle
    /\ SgIdle
    /\ dp_files \in FileLists
    /\ dp_ret = <<>>
    /\ dp_pc = "ready"
    /\ ct_text = <<>>
    /\ ct_ret = <<>>

ProcessMultipleDocuments ==
    /\ dp_pc = "ready"
    /\ dp_ret' = process_multiple_documents(dp_files)
    /\ dp_pc' = "done"
    /\ UNCHANGED <<storeVars, sgVars, appVars, dp_files, ct_text, ct_ret>>

SpecDocs == InitDocs /\ [][ProcessMultipleDocuments]_vars

InitChunk ==
    /\ StoreIdle
    /\ SgIdle
    /\ dp_files = <<>>
    /\ dp_ret = <<>>
    /\ dp_pc = "idle"
    /\ ct_text \in Texts
    /\ ct_ret = <<>>

ChunkText ==
    /\ dp_pc = "idle"
    /\ ct_ret' = chunk_text(ct_text, SampleMetadata)
    /\ dp_pc' = "chunked"
    /\ UNCHANGED <<storeVars, sgVars, appVars, dp_files, dp_ret, ct_text>>

SpecChunk == InitChunk /\ [][ChunkText]_vars

(***************************************************************************)
(* Claims about the document processor                                     *)
(***************************************************************************)
SupportedTypes == {"txt", "md", "json", "pdf", "html"}

\* extraction of the file fails: unsupported type, read error or parse error
ExtractionFails(file) ==
    \/ file.type \notin SupportedTypes
    \/ ~file.readable
    \/ (file.type \in {"json", "pdf"} /\ ~file.wellformed)

\* C9 (SpecDocs): process_multiple_documents returns the chunks of the files
\* whose extraction does not fail, concatenated in file-list order, and no chunk
\* of a file whose extraction fails.
C9_FailingFilesAreSkipped ==
    dp_pc = "done" =>
        /\ dp_ret = Flatten([k \in 1..Len(dp_files) |->
                        IF ExtractionFails(dp_files[k]) THEN <<>>
                        ELSE process_document(dp_files[k], dp_files[k].name,
                                              dp_files[k].type)])
        /\ \A i \in 1..Len(dp_ret) :
               \E k \in 1..Len(dp_files) :
                   /\ ~ExtractionFails(dp_files[k])
                   /\ dp_ret[i].metadata.source = dp_files[k].name
        /\ \A k \in 1..Len(dp_files) :
               (~ExtractionFails(dp_files[k]) /\ dp_files[k].body # <<>>) =>
                   \E i \in 1..Len(dp_ret) : dp_ret[i].metadata.source = dp_files[k].name

C9_Witness ==
    /\ dp_pc = "done"
    /\ Len(dp_files) = 3
    /\ ~ExtractionFails(dp_files[1])
    /\ ExtractionFails(dp_files[2])
    /\ ~ExtractionFails(dp_files[3])
    /\ dp_files[1].name # dp_files[3].name
    /\ dp_ret # <<>>
    /\ dp_ret[1].metadata.source = dp_files[1].name
    /\ dp_ret[Len(dp_ret)].metadata.source = dp_files[3].name

\* C10 (SpecChunk): the chunks chunk_text returns for a document carry the
\* chunk_id values 0, 1, ..., n-1 in output order and all carry total_chunks = n,
\* n being the number of chunks returned.
C10_ChunkIdsAreContiguous ==
    dp_pc = "chunked" =>
        \A i \in 1..Len(ct_ret) :
            /\ ct_ret[i].metadata.chunk_id = i - 1
            /\ ct_ret[i].metadata.total_chunks = Len(ct_ret)

C10_Witness ==
    /\ dp_pc = "chunked"
    /\ Len(ct_ret) >= 3
    /\ ct_ret[3].metadata.chunk_id = 2

\* C11 (SpecChunk): every chunk chunk_text emits is at most CHUNK_SIZE long (the
\* last separator is "", so no unit longer than one character is left unsplit),
\* and the separator the splitter settles on is the first of paragraph break,
\* line break, space, single character that occurs in the text.
C11_ChunksFitTheMaximum ==
    dp_pc = "chunked" =>
        LET has(sep) == \E i \in 1..(Len(ct_text) - Len(sep) + 1) :
                            SubSeq(ct_text, i, i + Len(sep) - 1) = sep
            first == IF has(<<"\n", "\n">>) THEN <<"\n", "\n">>
                     ELSE IF has(<<"\n">>) THEN <<"\n">>
                     ELSE IF has(<<" ">>) THEN <<" ">>
                     ELSE <<>>
        IN  /\ \A i \in 1..Len(ct_ret) : Len(ct_ret[i].content) <= CHUNK_SIZE
            /\ \A i \in 1..Len(ct_ret) : Len(ct_ret[i].content) > 0
            /\ PickSeparator(ct_text, separators).separator = first

C11_Witness ==
    /\ dp_pc = "chunked"
    /\ Len(ct_text) > CHUNK_SIZE
    /\ \E i \in 1..Len(ct_text) : ct_text[i] = " "
    /\ Len(ct_ret) >= 2
    /\ \E i \in 1..Len(ct_ret) : Len(ct_ret[i].content) = CHUNK_SIZE

\* the longest prefix of chunk that is also a suffix of prev
SharedLen(prev, chunk) ==
    LET ks == {k \in 0..Min(Len(prev), Len(chunk)) :
                  SubSeq(chunk, 1, k) = SubSeq(prev, Len(prev) - k + 1, Len(prev))}
    IN  CHOOSE k \in ks : \A j \in ks : j <= k

\* C12 (SpecChunk): the chunks of chunk_text, each without the leading content
\* it shares with the chunk before it, concatenate to the original text.
C12_ChunksReconstructText ==
    dp_pc = "chunked" =>
        LET unique(i) ==
                IF i = 1 THEN ct_ret[1].content
                ELSE SubSeq(ct_ret[i].content,
                            SharedLen(ct_ret[i - 1].content, ct_ret[i].content) + 1,
                            Len(ct_ret[i].content))
        IN  Flatten([i \in 1..Len(ct_ret) |-> unique(i)]) = ct_text

(***************************************************************************)
(* Part 3: LLMClient (src/llm_client.py).  The endpoint's behaviour for    *)
(* the one requests.post of a call is: raises (a requests Timeout or       *)
(* ConnectionError, or "none"), the status code, and the body: "not_json"  *)
(* (response.json() raises), "not_object" (JSON that is not an object),    *)
(* "missing_field" (a JSON object without the field the backend reads) or  *)
(* "ok" (the field holds text).                                            *)
(***************************************************************************)
MaxLines == 3       \* lines of a language-model response

\* the grave accent, which a string of this language cannot hold
Backtick == "backtick"

Fence == <<Backtick, Backtick, Backtick>>
FencePython == Fence \o <<"p", "y", "t", "h", "o", "n">>
IndentedFence == <<" ", " ">> \o Fence
CodeLine == <<"g", "o", "(", ")">>
BlankLine == <<>>

ResponseLines == {Fence, FencePython, IndentedFence, CodeLine, BlankLine}

\* the texts a language model may answer with
Responses == {Join(ls, <<"\n">>) : ls \in SeqsUpTo(ResponseLines, MaxLines)}

Http(raises, status_code, body, text) ==
    [raises |-> raises, status_code |-> status_code, body |-> body, text |-> text]

HttpFailures ==
    {Http("Timeout", 0, "none", <<>>), Http("ConnectionError", 0, "none", <<>>)}
    \cup {Http("none", s, "not_json", <<>>) : s \in {401, 429, 500}}
    \cup {Http("none", 200, b, <<>>) : b \in {"not_json", "not_object", "missing_field"}}

LlmBehaviours ==
    {[use_groq |-> g] @@ h :
        g \in BOOLEAN, h \in HttpFailures \cup {Http("none", 200, "ok", t) : t \in Responses}}

\* LLMClient._generate_ollama: result.get('response', '') of a 200 answer
generate_ollama(http) ==
    [ret |-> IF http.raises # "none" THEN NoneStr
             ELSE IF http.status_code # 200 THEN NoneStr
             ELSE IF http.body \in {"not_json", "not_object"} THEN NoneStr
             ELSE IF http.body = "missing_field" THEN Some(<<>>)
             ELSE Some(http.text),
     requests |-> <<"ollama:/api/generate">>]

\* LLMClient._generate_groq: result['choices'][0]['message']['content'] of a 200 answer
generate_groq(http) ==
    [ret |-> IF http.raises # "none" THEN NoneStr
             ELSE IF http.status_code # 200 THEN NoneStr
             ELSE IF http.body \in {"not_json", "not_object", "missing_field"} THEN NoneStr
             ELSE Some(http.text),
     requests |-> <<"groq:/openai/v1/chat/completions">>]

\* LLMClient.generate
\* a variant that sends the request again when the first one failed
generate_again(llm) ==
    LET first == IF llm.use_groq THEN generate_groq(llm) ELSE generate_ollama(llm)
    IN  IF first.ret.none
        THEN [ret |-> first.ret, requests |-> first.requests \o first.requests]
        ELSE first

generate(llm) ==
    IF llm.use_groq THEN generate_groq(llm) ELSE generate_ollama(llm)

InitLlm ==
    /\ StoreIdle
    /\ DocsIdle
    /\ sg_pc = "idle"
    /\ sg_llm \in LlmBehaviours
    /\ sg_results = <<>>
    /\ sg_script = <<>>
    /\ sg_soup = <<>>
    /\ SgOutputsIdle

Generate ==
    /\ sg_pc = "idle"
    /\ LET r == generate(sg_llm)
       IN  /\ llm_ret' = r.ret
           /\ llm_requests' = r.requests
    /\ sg_pc' = "generated"
    /\ UNCHANGED <<storeVars, dpVars, appVars, sg_results, sg_llm, sg_html, sg_ret, sg_calls,
                   sg_script, sg_valid, sg_soup, sg_structure>>

SpecLlm == InitLlm /\ [][Generate]_vars

\* C20 (SpecLlm): generate issues exactly one HTTP request on either backend,
\* and a timeout, a connection error, a status other than 200 or a malformed
\* body yields None, the same on both backends.
C20_OneRequestAndNoneOnFailure ==
    sg_pc = "generated" =>
        /\ Len(llm_requests) = 1
        /\ (sg_llm.raises # "none" \/ sg_llm.status_code # 200 \/ sg_llm.body # "ok")
               => llm_ret = NoneStr

(***************************************************************************)
(* Part 4: SeleniumScriptGenerator (src/selenium_generator.py).            *)
(*                                                                         *)
(* extract_html_structure.  The soup is what BeautifulSoup finds in the    *)
(* markup: its elements in document order, each with its tag name, the     *)
(* attributes it carries, its text and, for a select, the texts of its     *)
(* options.  Attribute values are strings, class is a list of strings;     *)
(* element texts and the value attribute are sequences of characters, so   *)
(* their empty string is <<>>.                                             *)
(***************************************************************************)
MaxElements == 3    \* elements of a parsed markup

NoAttrs == [a \in {} |-> ""]

Element(name, attrs, text) == [name |-> name, attrs |-> attrs, text |-> text, options |-> <<>>]

CandidateElements ==
    { Element("form", NoAttrs, <<>>),
      Element("form", [id |-> "f1", name |-> "pay", class |-> <<"wide">>, action |-> "/pay"], <<>>),
      Element("button", [id |-> "b1", type |-> "submit"], <<" ", "G", "o", "\n">>),
      Element("button", NoAttrs, <<>>),
      Element("input", NoAttrs, <<>>),
      Element("input", [id |-> "i1", type |-> "submit", value |-> <<"P", "a", "y">>], <<>>),
      Element("input", [id |-> "i2", type |-> "button"], <<>>),
      Element("input", [id |-> "i3", name |-> "q", class |-> <<"c1", "c2">>, type |-> "text",
                        placeholder |-> "search"], <<>>),
      Element("input", [id |-> "i4", type |-> "checkbox", value |-> <<"o", "n">>], <<>>),
      [Element("select", [id |-> "s1"], <<>>) EXCEPT !.options = <<<<"A", " ">>, <<>>>>],
      Element("a", [href |-> "/cart"], <<"c", "a", "r", "t">>),
      Element("a", NoAttrs, <<>>),
      Element("div", [id |-> "d1"], <<"x">>) }

Soups == SeqsUpTo(CandidateElements, MaxElements)

\* tag.get(attr, default)
get(tag, attr, default) ==
    IF attr \in DOMAIN tag.attrs THEN tag.attrs[attr] ELSE default

\* soup.find_all(names)
find_all(soup, names) == SelectSeq(soup, LAMBDA tag : tag.name \in names)

\* a variant of the button test that lets every input through
SkippedAsButton_never(button) == FALSE

\* the test at line 40: an input whose type is neither 'button' nor 'submit'
SkippedAsButton(button) ==
    /\ button.name = "input"
    /\ get(button, "type", None) \notin {"button", "submit"}

FormDescriptor(form) ==
    [id |-> get(form, "id", ""), name |-> get(form, "name", ""),
     class |-> get(form, "class", <<>>), action |-> get(form, "action", "")]

ButtonDescriptor(button) ==
    [id |-> get(button, "id", ""), name |-> get(button, "name", ""),
     class |-> get(button, "class", <<>>),
     text |-> IF button.name = "button" THEN Strip(button.text)
              ELSE get(button, "value", <<>>),
     type |-> get(button, "type", "")]

\* a variant whose type defaults to the empty string
InputDescriptor_blank_type(inp) ==
    [id |-> get(inp, "id", ""), name |-> get(inp, "name", ""),
     class |-> get(inp, "class", <<>>), type |-> get(inp, "type", ""),
     placeholder |-> get(inp, "placeholder", "")]

InputDescriptor(inp) ==
    [id |-> get(inp, "id", ""), name |-> get(inp, "name", ""),
     class |-> get(inp, "class", <<>>), type |-> get(inp, "type", "text"),
     placeholder |-> get(inp, "placeholder", "")]

SelectDescriptor(select) ==
    [id |-> get(select, "id", ""), name |-> get(select, "name", ""),
     class |-> get(select, "class", <<>>),
     options |-> [k \in 1..Len(select.options) |-> Strip(select.options[k])]]

LinkDescriptor(link) ==
    [id |-> get(link, "id", ""), class |-> get(link, "class", <<>>),
     text |-> Strip(link.text), href |-> get(link, "href", "")]

extract_html_structure(soup) ==
    LET forms == find_all(soup, {"form"})
        buttons == SelectSeq(find_all(soup, {"button", "input"}),
                             LAMBDA button : ~SkippedAsButton(button))
        inputs == find_all(soup, {"input"})
        selects == find_all(soup, {"select"})
        links == find_all(soup, {"a"})
    IN  [forms |-> [k \in 1..Len(forms) |-> FormDescriptor(forms[k])],
         buttons |-> [k \in 1..Len(buttons) |-> ButtonDescriptor(buttons[k])],
         inputs |-> [k \in 1..Len(inputs) |-> InputDescriptor(inputs[k])],
         selects |-> [k \in 1..Len(selects) |-> SelectDescriptor(selects[k])],
         links |-> [k \in 1..Len(links) |-> LinkDescriptor(links[k])]]

InitStructure ==
    /\ StoreIdle
    /\ DocsIdle
    /\ sg_pc = "idle"
    /\ sg_soup \in Soups
    /\ sg_results = <<>>
    /\ sg_llm = NoLlm
    /\ sg_script = <<>>
    /\ SgOutputsIdle

ExtractHtmlStructure ==
    /\ sg_pc = "idle"
    /\ sg_structure' = extract_html_structure(sg_soup)
    /\ sg_pc' = "extracted"
    /\ UNCHANGED <<storeVars, dpVars, appVars, sg_results, sg_llm, sg_html, sg_ret, sg_calls,
                   sg_script, sg_valid, sg_soup, llm_ret, llm_requests>>

SpecStructure == InitStructure /\ [][ExtractHtmlStructure]_vars

\* C18 (SpecStructure): buttons holds, in document order, the <button> elements
\* and the <input> elements whose type is 'button' or 'submit', and nothing
\* else; inputs holds every <input> element, those of type button or submit
\* included.
C18_ButtonsAndInputs ==
    sg_pc = "extracted" =>
        LET clickable == SelectSeq(sg_soup, LAMBDA e :
                            \/ e.name = "button"
                            \/ /\ e.name = "input"
                               /\ "type" \in DOMAIN e.attrs
                               /\ e.attrs.type \in {"button", "submit"})
            fields == SelectSeq(sg_soup, LAMBDA e : e.name = "input")
            ident(e) == IF "id" \in DOMAIN e.attrs THEN e.attrs.id ELSE ""
        IN  /\ Len(sg_structure.buttons) = Len(clickable)
            /\ \A k \in 1..Len(clickable) :
                   /\ sg_structure.buttons[k].id = ident(clickable[k])
                   /\ clickable[k].name = "input"
                          => sg_structure.buttons[k].type \in {"button", "submit"}
            /\ Len(sg_structure.inputs) = Len(fields)
            /\ \A k \in 1..Len(fields) : sg_structure.inputs[k].id = ident(fields[k])

C18_Witness ==
    /\ sg_pc = "extracted"
    /\ Len(sg_soup) = 3
    /\ sg_soup[1].name = "input" /\ "type" \notin DOMAIN sg_soup[1].attrs
    /\ sg_soup[2].name = "input" /\ get(sg_soup[2], "type", "") = "submit"
    /\ sg_soup[3].name = "button"
    /\ Len(sg_structure.buttons) = 2
    /\ Len(sg_structure.inputs) = 2
    /\ sg_structure.buttons[1].id = "i1"
    /\ sg_structure.buttons[2].id = "b1"

\* every inventory is there, every descriptor has all its fields, and a field
\* whose attribute the element lacks holds the empty string (the empty list for
\* class and options); the type of an inputs descriptor holds input_type instead
DefaultsHold(input_type) ==
    sg_pc = "extracted" =>
        LET of(names) == SelectSeq(sg_soup, LAMBDA e : e.name \in names)
            clickable == SelectSeq(sg_soup, LAMBDA e :
                            \/ e.name = "button"
                            \/ /\ e.name = "input"
                               /\ "type" \in DOMAIN e.attrs
                               /\ e.attrs.type \in {"button", "submit"})
            blank(e, d, as) == \A a \in as : a \notin DOMAIN e.attrs => d[a] = ""
            noclass(e, d) == "class" \notin DOMAIN e.attrs => d.class = <<>>
            each(ds, es, fields, as) ==
                /\ Len(ds) = Len(es)
                /\ \A k \in 1..Len(es) :
                       /\ DOMAIN ds[k] = fields
                       /\ blank(es[k], ds[k], as)
                       /\ noclass(es[k], ds[k])
        IN  /\ DOMAIN sg_structure = {"forms", "buttons", "inputs", "selects", "links"}
            /\ each(sg_structure.forms, of({"form"}),
                    {"id", "name", "class", "action"}, {"id", "name", "action"})
            /\ each(sg_structure.buttons, clickable,
                    {"id", "name", "class", "text", "type"}, {"id", "name", "type"})
            /\ \A k \in 1..Len(clickable) :
                   (clickable[k].name = "input" /\ "value" \notin DOMAIN clickable[k].attrs)
                       => sg_structure.buttons[k].text = <<>>
            /\ each(sg_structure.inputs, of({"input"}),
                    {"id", "name", "class", "type", "placeholder"}, {"id", "name", "placeholder"})
            /\ \A k \in 1..Len(of({"input"})) :
                   "type" \notin DOMAIN of({"input"})[k].attrs
                       => sg_structure.inputs[k].type = input_type
            /\ each(sg_structure.selects, of({"select"}),
                    {"id", "name", "class", "options"}, {"id", "name"})
            /\ \A k \in 1..Len(of({"select"})) :
                   of({"select"})[k].options = <<>> => sg_structure.selects[k].options = <<>>
            /\ each(sg_structure.links, of({"a"}),
                    {"id", "class", "text", "href"}, {"id", "href"})

\* C19 as stated (SpecStructure): all five inventories are returned and every
\* field of every descriptor holds the empty string (the empty list for class
\* and options) when the element lacks the attribute.
C19_AbsentAttributesAreEmpty == DefaultsHold("")

\* C19 amended (SpecStructure): as stated, except that the type of an inputs
\* descriptor holds 'text' when the <input> element has no type attribute.
C19_AbsentAttributesAreEmptyButInputType == DefaultsHold("text")

C19_Witness ==
    /\ sg_pc = "extracted"
    /\ Len(sg_soup) = 3
    /\ sg_soup[1] = Element("input", NoAttrs, <<>>)
    /\ sg_soup[2] = Element("form", NoAttrs, <<>>)
    /\ sg_soup[3] = Element("a", NoAttrs, <<>>)
    /\ sg_structure.inputs[1].type = "text"
    /\ sg_structure.inputs[1].id = ""
    /\ sg_structure.forms[1].class = <<>>
    /\ sg_structure.links[1].href = ""
    /\ sg_structure.buttons = <<>>

(***************************************************************************)
(* get_html_content.  A search result is a chunk: its content and the      *)
(* source and file_type of its metadata.                                   *)
(***************************************************************************)
MaxResults == 3     \* results the search hands to get_html_content

Delimiter == <<"-", "-", "-", " ", "H", "T", "M", "L", " ", "S", "t", "r", "u", "c", "t", "u", "r", "e", " ", "-", "-", "-">>
Marker == <<"H", "T", "M", "L", " ", "S", "t", "r", "u", "c", "t", "u", "r", "e">>
Doctype == <<"<", "!", "D", "O", "C", "T", "Y", "P", "E">>
HtmlTag == <<"<", "h", "t", "m", "l">>
HtmlSuffix == <<".", "h", "t", "m", "l">>
LinkMarkup == <<"<", "a", ">", "x", "<", "/", "a", ">">>

Result(content, source, file_type) ==
    [content |-> content, metadata |-> [source |-> source, file_type |-> file_type]]

CandidateResults ==
    { Result(<<"T", "i", "t", "l", "e", ":", " ", "T", "\n", "-", "-", "-", " ", "H", "T", "M", "L", " ", "S", "t", "r", "u", "c", "t", "u", "r", "e", " ", "-", "-", "-", "\n", "<", "h", "t", "m", "l", ">", "<", "a", ">", "x", "<", "/", "a", ">", "<", "/", "h", "t", "m", "l", ">">>,
             <<"p", "a", "g", "e", ".", "h", "t", "m", "l">>, "html"),
      Result(<<"C", "o", "n", "t", "e", "n", "t", ":", "\n", "-", "-", "-", " ", "H", "T", "M", "L", " ", "S", "t", "r", "u", "c", "t", "u", "r", "e", " ", "-", "-", "-", "\n">>,
             <<"p", "a", "g", "e", ".", "h", "t", "m", "l">>, "html"),
      Result(<<"<", "h", "t", "m", "l", ">", "<", "p", ">", "r", "a", "w", "<", "/", "p", ">">>, <<"p", "a", "g", "e", ".", "h", "t", "m", "l">>, "html"),
      Result(<<"<", "!", "D", "O", "C", "T", "Y", "P", "E", " ", "h", "t", "m", "l", ">">>, <<"n", "o", "t", "e", "s", ".", "m", "d">>, "md"),
      Result(<<"<", "a", ">", "x", "<", "/", "a", ">", "<", "/", "h", "t", "m", "l", ">">>, <<"p", "a", "g", "e", ".", "h", "t", "m", "l">>, "html"),
      Result(<<"s", "e", "e", " ", "H", "T", "M", "L", " ", "S", "t", "r", "u", "c", "t", "u", "r", "e">>, <<"g", "u", "i", "d", "e", ".", "m", "d">>, "md"),
      Result(<<"p", "a", "y", " ", "n", "o", "w">>, <<"n", "o", "t", "e", "s", ".", "t", "x", "t">>, "txt") }

ResultLists == SeqsUpTo(CandidateResults, MaxResults)

\* s.endswith(suffix)
EndsWith(s, suffix) ==
    /\ Len(suffix) <= Len(s)
    /\ SubSeq(s, Len(s) - Len(suffix) + 1, Len(s)) = suffix

\* the test at line 103
IsHtmlContent(result) ==
    \/ result.metadata.file_type = "html"
    \/ Contains(result.content, Marker)
    \/ Contains(result.content, Doctype)
    \/ Contains(result.content, HtmlTag)

\* the result the first loop returns from, or 0: the first that passes the test
\* at line 103 and then holds the delimiter or raw markup
FirstHtml(results) ==
    LET hits == {k \in 1..Len(results) :
                    /\ IsHtmlContent(results[k])
                    /\ \/ Contains(results[k].content, Delimiter)
                       \/ Contains(results[k].content, Doctype)
                       \/ Contains(results[k].content, HtmlTag)}
    IN  IF hits = {} THEN 0 ELSE CHOOSE k \in hits : \A j \in hits : k <= j

get_html_content(results) ==
    IF results = <<>> THEN NoneStr
    ELSE LET k == FirstHtml(results)
             html_chunks == SelectSeq(results, LAMBDA r : EndsWith(r.metadata.source, HtmlSuffix))
         IN  IF k # 0
             THEN IF Contains(results[k].content, Delimiter)
                  THEN Some(Strip(SplitOn(results[k].content, Delimiter, 1)[2]))
                  ELSE Some(results[k].content)
             ELSE IF html_chunks # <<>>
                  THEN Some(Join([j \in 1..Len(html_chunks) |-> html_chunks[j].content], <<"\n">>))
                  ELSE NoneStr

InitRecover ==
    /\ StoreIdle
    /\ DocsIdle
    /\ sg_pc = "idle"
    /\ sg_results \in ResultLists
    /\ sg_llm = NoLlm
    /\ sg_script = <<>>
    /\ sg_soup = <<>>
    /\ SgOutputsIdle

GetHtmlContent ==
    /\ sg_pc = "idle"
    /\ sg_html' = get_html_content(sg_results)
    /\ sg_pc' = "recovered"
    /\ UNCHANGED <<storeVars, dpVars, appVars, sg_results, sg_llm, sg_ret, sg_calls,
                   sg_script, sg_valid, sg_soup, sg_structure, llm_ret, llm_requests>>

SpecRecover == InitRecover /\ [][GetHtmlContent]_vars

\* C14 (SpecRecover): if a retrieved chunk holds the structure delimiter, the
\* result is the segment after the delimiter of the highest-ranked such chunk,
\* even below a raw-markup chunk; else if a chunk holds '<!DOCTYPE' or '<html',
\* the highest-ranked such chunk as it is; else the chunks whose source name
\* ends in '.html', joined in retrieval order.
C14_RecoveryPriority ==
    sg_pc = "recovered" =>
        LET has(k, s) == \E i \in 1..Len(sg_results[k].content) :
                             StartsAt(sg_results[k].content, s, i)
            delimited == {k \in 1..Len(sg_results) : has(k, Delimiter)}
            raw == {k \in 1..Len(sg_results) :
                       ~has(k, Delimiter) /\ (has(k, Doctype) \/ has(k, HtmlTag))}
            named == SelectSeq(sg_results, LAMBDA r : EndsWith(r.metadata.source, HtmlSuffix))
            top(S) == CHOOSE k \in S : \A j \in S : k <= j
        IN  IF delimited # {}
            THEN sg_html = Some(Strip(SplitOn(sg_results[top(delimited)].content,
                                              Delimiter, 1)[2]))
            ELSE IF raw # {}
            THEN sg_html = Some(sg_results[top(raw)].content)
            ELSE named # <<>> =>
                     sg_html = Some(Join([j \in 1..Len(named) |-> named[j].content], <<"\n">>))

(***************************************************************************)
(* generate_selenium_script                                                *)
(***************************************************************************)
\* what BeautifulSoup finds in a markup, of the elements the inventories look
\* for: the markups of CandidateResults hold nothing but <a>x</a> links
BeautifulSoup(markup) ==
    [k \in 1..(Len(SplitOn(markup, LinkMarkup, 1)) - 1) |-> Element("a", NoAttrs, <<"x">>)]

\* a variant of the test that lets None and '' through
Falsy_never(value) == FALSE

\* not value, for an Optional[str]
Falsy(value) == value.none \/ value.text = <<>>

\* lines 206-214: the response without a fence line at its start and end
CleanResponse(response) ==
    LET cleaned_response == Strip(response)
    IN  IF StartsAt(cleaned_response, Fence, 1)
        THEN LET lines == SplitOn(cleaned_response, <<"\n">>, 1)
                 lines1 == IF StartsAt(Strip(lines[1]), Fence, 1) THEN Tail(lines) ELSE lines
                 lines2 == IF lines1 # <<>> /\ StartsAt(Strip(lines1[Len(lines1)]), Fence, 1)
                           THEN SubSeq(lines1, 1, Len(lines1) - 1)
                           ELSE lines1
             IN  Join(lines2, <<"\n">>)
        ELSE cleaned_response

generate_selenium_script(results, llm) ==
    LET html_content == get_html_content(results)
    IN  IF Falsy(html_content)
        THEN [ret |-> NoneStr, html |-> html_content, structure |-> None,
              calls |-> <<"search">>, response |-> NoneStr, requests |-> <<>>]
        ELSE LET html_structure == extract_html_structure(BeautifulSoup(html_content.text))
                 r == generate(llm)
             IN  [ret |-> IF Falsy(r.ret) THEN NoneStr ELSE Some(CleanResponse(r.ret.text)),
                  html |-> html_content, structure |-> html_structure,
                  calls |-> <<"search", "extract_html_structure", "generate">>,
                  response |-> r.ret, requests |-> r.requests]

\* the search results generate_selenium_script is run on
ScriptResults == SeqsUpTo(CandidateResults, 1)

InitScript ==
    /\ StoreIdle
    /\ DocsIdle
    /\ sg_pc = "idle"
    /\ sg_results \in ScriptResults
    /\ sg_llm \in LlmBehaviours
    /\ sg_script = <<>>
    /\ sg_soup = <<>>
    /\ SgOutputsIdle

GenerateSeleniumScript ==
    /\ sg_pc = "idle"
    /\ LET r == generate_selenium_script(sg_results, sg_llm)
       IN  /\ sg_ret' = r.ret
           /\ sg_html' = r.html
           /\ sg_structure' = r.structure
           /\ sg_calls' = r.calls
           /\ llm_ret' = r.response
           /\ llm_requests' = r.requests
    /\ sg_pc' = "scripted"
    /\ UNCHANGED <<storeVars, dpVars, appVars, sg_results, sg_llm, sg_script, sg_valid, sg_soup>>

SpecScript == InitScript /\ [][GenerateSeleniumScript]_vars

\* C13 (SpecScript): when no markup is recoverable (the search result is empty,
\* or no retrieved chunk holds the delimiter or raw markup or comes from a
\* '.html' source), generate_selenium_script returns None and the language
\* model is not invoked; when the model is invoked, markup recovery and
\* structure extraction have run before it.
C13_NoMarkupNoModel ==
    sg_pc = "scripted" =>
        LET has(k, s) == \E i \in 1..Len(sg_results[k].content) :
                             StartsAt(sg_results[k].content, s, i)
            recoverable == \E k \in 1..Len(sg_results) :
                               \/ has(k, Delimiter) \/ has(k, Doctype) \/ has(k, HtmlTag)
                               \/ EndsWith(sg_results[k].metadata.source, HtmlSuffix)
            invoked == \E i \in 1..Len(sg_calls) : sg_calls[i] = "generate"
        IN  /\ ~recoverable =>
                   /\ sg_ret = NoneStr
                   /\ ~invoked
                   /\ llm_requests = <<>>
            /\ (invoked \/ llm_requests # <<>>) =>
                   /\ sg_calls = <<"search", "extract_html_structure", "generate">>
                   /\ ~sg_html.none /\ sg_html.text # <<>>
                   /\ DOMAIN sg_structure = {"forms", "buttons", "inputs", "selects", "links"}

C13_Witness ==
    /\ sg_pc = "scripted"
    /\ Len(sg_results) = 1
    /\ sg_results[1].metadata.file_type = "txt"
    /\ sg_llm.body = "ok" /\ sg_llm.text # <<>>
    /\ sg_ret = NoneStr
    /\ sg_calls = <<"search">>
    /\ llm_requests = <<>>

\* C15 (SpecScript): for a non-empty response, the script returned is the
\* trimmed response without a fence line at its very start, if there is one,
\* and without a fence line at its very end, if there is one, each on its own;
\* the other lines are returned as they are and in order.
C15_FencesStrippedIndependently ==
    (sg_pc = "scripted" /\ ~llm_ret.none /\ llm_ret.text # <<>>) =>
        LET trimmed == Strip(llm_ret.text)
            lines == SplitOn(trimmed, <<"\n">>, 1)
            fence(line) == LET t == Strip(line)
                           IN  Len(t) >= 3 /\ SubSeq(t, 1, 3) = <<Backtick, Backtick, Backtick>>
            body1 == IF fence(lines[1]) THEN Tail(lines) ELSE lines
            body2 == IF body1 # <<>> /\ fence(body1[Len(body1)])
                     THEN SubSeq(body1, 1, Len(body1) - 1) ELSE body1
        IN  sg_ret = Some(Join(body2, <<"\n">>))

(***************************************************************************)
(* validate_script                                                         *)
(***************************************************************************)
MaxScriptLines == 3     \* lines of a script handed to validate_script

ScriptLines ==
    { <<"f", "r", "o", "m", " ", "s", "e", "l", "e", "n", "i", "u", "m", " ", "i", "m", "p", "o", "r", "t", " ", "w", "e", "b", "d", "r", "i", "v", "e", "r">>,
      <<"W", "e", "b", "D", "r", "i", "v", "e", "r", "W", "a", "i", "t", "(", "d", ",", " ", "5", ")">>,
      <<"d", ".", "f", "i", "n", "d", "_", "e", "l", "e", "m", "e", "n", "t", "(", "B", "y", ".", "I", "D", ",", " ", "'", "x", "'", ")">>,
      <<"b", ".", "c", "l", "i", "c", "k", "(", ")">>,
      <<"f", ".", "s", "e", "n", "d", "_", "k", "e", "y", "s", "(", "'", "a", "'", ")">>,
      <<"t", "r", "y", ":">>,
      <<"e", "x", "c", "e", "p", "t", " ", "E", "x", "c", "e", "p", "t", "i", "o", "n", ":">>,
      <<"#", " ", "o", "n", "c", "l", "i", "c", "k">>,
      <<"p", "a", "s", "s">> }

Scripts == {Join(ls, <<"\n">>) : ls \in SeqsUpTo(ScriptLines, MaxScriptLines)}

required_imports ==
    << [text |-> <<"s", "e", "l", "e", "n", "i", "u", "m">>, warning |-> "Missing import: selenium"],
       [text |-> <<"w", "e", "b", "d", "r", "i", "v", "e", "r">>, warning |-> "Missing import: webdriver"],
       [text |-> <<"W", "e", "b", "D", "r", "i", "v", "e", "r", "W", "a", "i", "t">>, warning |-> "Missing import: WebDriverWait"] >>

\* a variant that looks for find_element only
required_methods_one == {<<"f", "i", "n", "d", "_", "e", "l", "e", "m", "e", "n", "t">>}

required_methods ==
    { <<"f", "i", "n", "d", "_", "e", "l", "e", "m", "e", "n", "t">>,
      <<"c", "l", "i", "c", "k">>,
      <<"s", "e", "n", "d", "_", "k", "e", "y", "s">> }

\* lines 235-237
ImportWarnings(script) ==
    LET missing == SelectSeq(required_imports, LAMBDA imp : ~Contains(script, imp.text))
    IN  [k \in 1..Len(missing) |-> missing[k].warning]

\* a variant that does not look for error handling
HandlingWarnings_none(script) == <<>>

\* lines 246-247
HandlingWarnings(script) ==
    IF ~Contains(script, <<"t", "r", "y", ":">>) \/ ~Contains(script, <<"e", "x", "c", "e", "p", "t">>)
    THEN <<"Missing error handling">>
    ELSE <<>>

validate_script(script) ==
    LET has_methods == \E method \in required_methods : Contains(script, method)
    IN  [valid |-> has_methods,
         warnings |-> ImportWarnings(script) \o HandlingWarnings(script),
         errors |-> IF ~has_methods THEN <<"No Selenium methods found">> ELSE <<>>]

InitValidate ==
    /\ StoreIdle
    /\ DocsIdle
    /\ sg_pc = "idle"
    /\ sg_script \in Scripts
    /\ sg_results = <<>>
    /\ sg_llm = NoLlm
    /\ sg_soup = <<>>
    /\ SgOutputsIdle

ValidateScript ==
    /\ sg_pc = "idle"
    /\ sg_valid' = validate_script(sg_script)
    /\ sg_pc' = "validated"
    /\ UNCHANGED <<storeVars, dpVars, appVars, sg_results, sg_llm, sg_html, sg_ret, sg_calls,
                   sg_script, sg_soup, sg_structure, llm_ret, llm_requests>>

SpecValidate == InitValidate /\ [][ValidateScript]_vars

\* the substring occurs in the script handed to validate_script
ScriptHas(s) == \E i \in 1..Len(sg_script) : StartsAt(sg_script, s, i)

ScriptInteracts ==
    \/ ScriptHas(<<"f", "i", "n", "d", "_", "e", "l", "e", "m", "e", "n", "t">>)
    \/ ScriptHas(<<"c", "l", "i", "c", "k">>)
    \/ ScriptHas(<<"s", "e", "n", "d", "_", "k", "e", "y", "s">>)

\* C16 (SpecValidate): valid is false exactly when none of 'find_element',
\* 'click', 'send_keys' occurs in the script, and then errors is not empty;
\* when one of them occurs, valid is true and errors is empty.
C16_ValidIffInteraction ==
    sg_pc = "validated" =>
        /\ sg_valid.valid = ScriptInteracts
        /\ ~sg_valid.valid => sg_valid.errors # <<>>
        /\ sg_valid.valid => sg_valid.errors = <<>>

C16_Witness ==
    /\ sg_pc = "validated"
    /\ ScriptHas(<<"c", "l", "i", "c", "k">>)
    /\ ~ScriptHas(<<"f", "i", "n", "d", "_", "e", "l", "e", "m", "e", "n", "t">>)
    /\ ~ScriptHas(<<"s", "e", "n", "d", "_", "k", "e", "y", "s">>)
    /\ sg_valid.valid
    /\ sg_valid.errors = <<>>

\* C17 (SpecValidate): a script with an interaction-method substring that lacks
\* 'try:' or lacks 'except' is reported valid with at least one warning, and
\* no warning makes a script with an interaction-method substring invalid.
C17_WarningsKeepValid ==
    sg_pc = "validated" =>
        /\ (ScriptInteracts /\ (~ScriptHas(<<"t", "r", "y", ":">>) \/ ~ScriptHas(<<"e", "x", "c", "e", "p", "t">>))) =>
               (sg_valid.valid /\ Len(sg_valid.warnings) >= 1)
        /\ (ScriptInteracts /\ sg_valid.warnings # <<>>) => sg_valid.valid
        /\ (~ScriptInteracts /\ sg_valid.warnings = <<>>) => ~sg_valid.valid

C17_Witness ==
    /\ sg_pc = "validated"
    /\ ScriptInteracts
    /\ ScriptHas(<<"s", "e", "l", "e", "n", "i", "u", "m">>)
    /\ ScriptHas(<<"t", "r", "y", ":">>)
    /\ ~ScriptHas(<<"e", "x", "c", "e", "p", "t">>)
    /\ sg_valid.valid
    /\ sg_valid.warnings = <<"Missing import: WebDriverWait", "Missing error handling">>

(***************************************************************************)
(* Part 5: the Streamlit session (src/app.py)                              *)
(* One action per button.  A handler runs to completion within one script  *)
(* run, so each is one step.                                               *)
(***************************************************************************)
\* the number of Build Knowledge Base clicks that are followed
MaxBuilds == 2

\* the files the two uploaders can hold (the uploaders admit txt, md, json, pdf, html)
Upload(support_files, html_file) == [support_files |-> support_files, html_file |-> html_file]
Named(name) == CHOOSE f \in CandidateFiles : f.name = name
Uploads ==
    { Upload(<<Named("notes.txt"), Named("bad.json")>>, <<>>),
      Upload(<<>>, <<Named("page.html")>>),
      Upload(<<Named("bad.json"), Named("broken.txt")>>, <<>>) }

\* lines 419-444: the support files with the type their name ends in, then the
\* HTML file with type 'html'
file_list(upload) ==
    upload.support_files \o [i \in 1..Len(upload.html_file) |->
                                [upload.html_file[i] EXCEPT !.type = "html"]]

\* a variant that goes on to the store with no chunk at all
NothingProcessed_never(all_documents) == FALSE

\* "if not all_documents:" (line 449)
NothingProcessed(all_documents) == all_documents = <<>>

\* line 447 for each upload: process_multiple_documents depends on the file
\* list alone, so its result is worked out once per upload
Processed ==
    {[upload |-> u, all_documents |-> process_multiple_documents(file_list(u))] : u \in Uploads}

\* lines 455-499: what the handler does with the results c of create_collection
\* and a of add_documents
AfterAdd(same, names, c, a) ==
    [same EXCEPT !.exists = c.exists, !.points = a.points, !.built = a.ret,
                 !.uploaded_files = IF a.ret THEN names ELSE <<>>]
    @@ [invoked |-> <<"process_multiple_documents", "create_collection", "add_documents">>,
        calls |-> c.calls \o a.calls,
        message |-> IF a.ret THEN "Knowledge Base Built Successfully"
                    ELSE "Failed to add documents to vector store"]

AfterCreate(same, names, c, epoch, AF) ==
    IF ~c.ret
    THEN [same EXCEPT !.exists = c.exists, !.points = c.points]
         @@ [message |-> "Failed to create collection",
             invoked |-> <<"process_multiple_documents", "create_collection">>,
             calls |-> c.calls]
    ELSE AfterAdd(same, names, c,
                  add_documents(c.exists, c.points, epoch, same.documents, AF))

AfterProcess(same, names, epoch, CF, AF) ==
    IF NothingProcessed(same.documents)
    THEN same @@ [message |-> "Failed to process documents",
                  invoked |-> <<"process_multiple_documents">>, calls |-> <<>>]
    ELSE AfterCreate(same, names, create_collection(same.exists, same.points, TRUE, CF),
                     epoch, AF)

\* lines 409-503, from the click to the message shown
build_knowledge_base(exists, pts, epoch, upload, CF, AF) ==
    AfterProcess([exists |-> exists, points |-> pts, built |-> FALSE, uploaded_files |-> <<>>,
                  documents |-> (CHOOSE p \in Processed : p.upload = upload).all_documents],
                 [i \in 1..Len(file_list(upload)) |-> file_list(upload)[i].name],
                 epoch, CF, AF)

\* what an earlier session may have left in the collection
EarlierDocuments ==
    process_multiple_documents(<<File("earlier.txt", "txt", TRUE, TRUE, <<"o", "l", "d">>)>>)
EarlierPoints ==
    add_documents(TRUE, EmptyPoints, 0, EarlierDocuments, [enc |-> FALSE, failAt |-> 0]).points

InitApp ==
    /\ collection_exists \in BOOLEAN
    /\ points \in IF collection_exists THEN {EmptyPoints, EarlierPoints} ELSE {EmptyPoints}
    /\ num_adds = 0
    /\ op = [name |-> "init"]
    /\ ret = FALSE
    /\ calls = <<>>
    /\ DocsIdle
    /\ SgIdle
    /\ SessionIdle

BuildKnowledgeBase ==
    /\ num_adds < MaxBuilds
    /\ \E upload \in Uploads, CF \in CreateFaults, AF \in AddFaults :
        \E r \in {build_knowledge_base(collection_exists, points, num_adds + 1, upload, CF, AF)} :
            /\ collection_exists' = r.exists
            /\ points' = r.points
            /\ num_adds' = num_adds + 1
            /\ op' = [name |-> "Build Knowledge Base", invoked |-> r.invoked,
                      documents |-> r.documents, message |-> r.message]
            /\ ret' = r.built
            /\ calls' = r.calls
            /\ knowledge_base_built' = (r.built \/ knowledge_base_built)
            /\ uploaded_files' = IF r.built THEN r.uploaded_files ELSE uploaded_files
            /\ built_documents' = IF r.built THEN r.documents ELSE built_documents
            /\ UNCHANGED <<test_cases, selected_test_case, generated_script,
                           script_test_case, dpVars, sgVars>>

\* lines 349-359: the result of clear_collection is not looked at
ClearKnowledgeBase ==
    \E F \in ClearFaults :
        \E r \in {clear_collection(collection_exists, points, F)} :
            /\ collection_exists' = r.exists
            /\ points' = r.points
            /\ op' = [name |-> "Clear Knowledge Base", message |-> "Knowledge base cleared!"]
            /\ ret' = r.ret
            /\ calls' = r.calls
            /\ knowledge_base_built' = FALSE
            /\ test_cases' = NoneValue
            /\ selected_test_case' = NoneValue
            /\ generated_script' = NoneStr
            /\ script_test_case' = NoneValue
            /\ UNCHANGED <<num_adds, uploaded_files, built_documents, dpVars, sgVars>>

(***************************************************************************)
(* The Test-Case Synthesizer.  The session imports it (line 10) and calls  *)
(* generate_test_cases (line 548); its protocol is section 4.5 of the      *)
(* specification, steps 1 to 6 and the edge cases.                         *)
(***************************************************************************)
\* a Test Case as the session reads it: tc.get('test_id'), tc.get('test_name')
TestCase(test_id, test_name) == [test_id |-> test_id, test_name |-> test_name]

\* replies of the model to the test-case prompt
FirstJson == <<"[", "{", "\"", "t", "e", "s", "t", "_", "i", "d", "\"", ":", "\"", "T", "C", "1", "\"", ",", "\"", "t", "e", "s", "t", "_", "n", "a", "m", "e", "\"", ":", "\"", "p", "a", "y", "\"", "}", ",", "{", "\"", "t", "e", "s", "t", "_", "i", "d", "\"", ":", "\"", "T", "C", "2", "\"", ",", "\"", "t", "e", "s", "t", "_", "n", "a", "m", "e", "\"", ":", "\"", "q", "u", "i", "t", "\"", "}", "]">>
SecondJson == <<"[", "{", "\"", "t", "e", "s", "t", "_", "i", "d", "\"", ":", "\"", "T", "C", "1", "\"", ",", "\"", "t", "e", "s", "t", "_", "n", "a", "m", "e", "\"", ":", "\"", "l", "o", "g", "i", "n", "\"", "}", "]">>
EmptyListJson == <<"[", "]">>
ObjectJson == <<"{", "}">>
NotJson == <<"S", "u", "r", "e", "!">>
TestCaseReplies == {FirstJson, SecondJson, EmptyListJson, ObjectJson, NotJson}

\* the JSON parse of a reply: the parsed value, or a parse failure
json_loads(text) ==
    CASE text = FirstJson -> [ok |-> TRUE, is_list |-> TRUE,
                              value |-> <<TestCase("TC1", "pay"), TestCase("TC2", "quit")>>]
      [] text = SecondJson -> [ok |-> TRUE, is_list |-> TRUE,
                               value |-> <<TestCase("TC1", "login")>>]
      [] text = EmptyListJson -> [ok |-> TRUE, is_list |-> TRUE, value |-> <<>>]
      [] text = ObjectJson -> [ok |-> TRUE, is_list |-> FALSE, value |-> <<>>]
      [] OTHER -> [ok |-> FALSE, is_list |-> FALSE, value |-> <<>>]

\* the distinct source names of the retrieved chunks, in retrieval order
RECURSIVE source_documents(_)
source_documents(retrieved) ==
    IF retrieved = <<>> THEN <<>>
    ELSE LET before == source_documents(SubSeq(retrieved, 1, Len(retrieved) - 1))
             name == retrieved[Len(retrieved)].metadata.source
         IN  IF \E j \in 1..Len(before) : before[j] = name THEN before
             ELSE Append(before, name)

\* step 2 and the edge case: the context block, or the "no context" notice
context_block(retrieved) ==
    IF retrieved = <<>> THEN [no_context |-> TRUE, chunks |-> <<>>]
    ELSE [no_context |-> FALSE, chunks |-> retrieved]

\* steps 5 and 6, for the reply text and its parse
parsed_result(retrieved, text, parsed) ==
    IF ~parsed.ok
    THEN [success |-> FALSE, error |-> "Failed to parse response", raw_response |-> text]
    ELSE IF ~parsed.is_list
    THEN [success |-> FALSE, error |-> "Response is not a list", raw_response |-> text]
    ELSE [success |-> TRUE, test_cases |-> parsed.value,
          source_documents |-> source_documents(retrieved)]

\* steps 2 to 6, for the result s of the search and the result r of the model call
synthesize(s, context, r) ==
    [retrieved |-> s.ret, context |-> context, calls |-> s.calls,
     response |-> r.ret, requests |-> r.requests,
     result |-> IF r.ret.none
                THEN [success |-> FALSE, error |-> "No response from the model"]
                ELSE parsed_result(s.ret, r.ret.text, json_loads(r.ret.text))]

\* steps 1 to 6
generate_test_cases(exists, pts, query, retrieve_top_k, F, llm) ==
    CHOOSE g \in {synthesize(s, context_block(s.ret), generate(llm)) :
                    s \in {search(exists, pts, query, retrieve_top_k, NoFilter, 1, F)}} : TRUE

(***************************************************************************)
(* Tabs 2 and 3 of the session                                             *)
(***************************************************************************)
\* the backends and replies the session's language model can show
Backends(replies) ==
    {[use_groq |-> TRUE] @@ h :
        h \in {Http("Timeout", 0, "none", <<>>), Http("none", 200, "missing_field", <<>>)}}
    \cup {[use_groq |-> FALSE] @@ h :
        h \in {Http("none", 200, "missing_field", <<>>)}
              \cup {Http("none", 200, "ok", t) : t \in replies}}

\* replies to the script prompt: a bare script and a fenced one
ScriptReplies ==
    {Join(<<CodeLine>>, <<"\n">>), Join(<<FencePython, CodeLine, Fence>>, <<"\n">>)}

\* the first attempt of a search fails in encode, in client.search, or not at all
FirstAttemptFaults == {F \in SearchFaults : ~F.enc[2] /\ ~F.srch[2]}

\* the slider "Documents to retrieve" (3 to 10)
RetrieveKs == {3, 10}

\* a variant that stores whatever generate_test_cases returned
StoresResult_always(result) == TRUE

\* "if result.get('success'):" (line 550)
StoresResult(result) == result.success

\* lines 545-565; the button is drawn only while knowledge_base_built is set
GenerateTestCases ==
    /\ knowledge_base_built
    /\ \E retrieve_k \in RetrieveKs, F \in FirstAttemptFaults, llm \in Backends(TestCaseReplies) :
        \E g \in {generate_test_cases(collection_exists, points, "query", retrieve_k, F, llm)} :
            /\ test_cases' = IF StoresResult(g.result) THEN g.result ELSE test_cases
            /\ op' = [name |-> "Generate Test Cases", retrieved |-> Len(g.retrieved),
                      no_context |-> g.context.no_context, response |-> g.response,
                      requests |-> Len(g.requests)]
            /\ ret' = g.result
            /\ calls' = g.calls
    /\ UNCHANGED <<collection_exists, points, num_adds, knowledge_base_built, uploaded_files,
                   selected_test_case, generated_script, built_documents, script_test_case,
                   dpVars, sgVars>>

\* lines 568-605: one Select button per stored test case
SelectTestCase ==
    /\ knowledge_base_built
    /\ test_cases # NoneValue
    /\ test_cases.success
    /\ \E i \in 1..Len(test_cases.test_cases) :
        /\ selected_test_case' = test_cases.test_cases[i]
        /\ op' = [name |-> "Select", index |-> i]
    /\ ret' = TRUE
    /\ calls' = <<>>
    /\ UNCHANGED <<collection_exists, points, num_adds, knowledge_base_built, uploaded_files,
                   test_cases, generated_script, built_documents, script_test_case,
                   dpVars, sgVars>>

\* file names are strings in parts 1 and 2 and character sequences in part 4:
\* the names of the uploaded files, spelled out
Spelled(name) ==
    CASE name = "notes.txt" -> <<"n", "o", "t", "e", "s", ".", "t", "x", "t">>
      [] name = "bad.json" -> <<"b", "a", "d", ".", "j", "s", "o", "n">>
      [] name = "page.html" -> <<"p", "a", "g", "e", ".", "h", "t", "m", "l">>
      [] name = "broken.txt" -> <<"b", "r", "o", "k", "e", "n", ".", "t", "x", "t">>
      [] name = "manual.txt" -> <<"m", "a", "n", "u", "a", "l", ".", "t", "x", "t">>
      [] name = "earlier.txt" -> <<"e", "a", "r", "l", "i", "e", "r", ".", "t", "x", "t">>

\* the search results with their source names spelled out
WithSpelledSources(results) ==
    [j \in 1..Len(results) |->
        [results[j] EXCEPT !.metadata.source = Spelled(results[j].metadata.source)]]

\* lines 611-650: get_html_content searches the collection (top_k=20), then the
\* script is generated and kept "if script:"
GenerateScript ==
    /\ knowledge_base_built
    /\ test_cases # NoneValue
    /\ selected_test_case # NoneValue
    /\ \E F \in FirstAttemptFaults, llm \in Backends(ScriptReplies) :
        \E s \in {search(collection_exists, points,
                           "HTML structure checkout form button input select", 20, NoFilter, 1, F)} :
        \E r \in {generate_selenium_script(WithSpelledSources(s.ret), llm)} :
            /\ generated_script' = IF Falsy(r.ret) THEN generated_script ELSE r.ret
            /\ script_test_case' = IF Falsy(r.ret) THEN script_test_case ELSE selected_test_case
            /\ op' = [name |-> "Generate Selenium Script", html |-> r.html,
                      message |-> IF Falsy(r.ret) THEN "Failed to generate script"
                                  ELSE "Selenium Script Generated Successfully"]
            /\ ret' = r.ret
            /\ calls' = s.calls
    /\ UNCHANGED <<collection_exists, points, num_adds, knowledge_base_built, uploaded_files,
                   test_cases, selected_test_case, built_documents, dpVars, sgVars>>

\* the knowledge base as tabs 2 and 3 can find it: built from notes.txt, built
\* from page.html, or built from page.html and then rebuilt with a failing
\* add_documents (the second Build leaves knowledge_base_built set)
NoAddFault == [enc |-> FALSE, failAt |-> 0]
BuiltFrom(upload) ==
    build_knowledge_base(FALSE, EmptyPoints, 1, upload, NoCreateFault, NoAddFault)
Rebuilt(first, second) == [first EXCEPT !.exists = second.exists, !.points = second.points]
RebuiltAfter(first, upload, AF) ==
    Rebuilt(first, build_knowledge_base(first.exists, first.points, 2, upload, NoCreateFault, AF))
KnowledgeBases ==
    {BuiltFrom(u) : u \in {Upload(<<Named("notes.txt"), Named("bad.json")>>, <<>>),
                           Upload(<<>>, <<Named("page.html")>>)}}
    \cup {RebuiltAfter(page, Upload(<<Named("notes.txt"), Named("bad.json")>>, <<>>),
                        [enc |-> TRUE, failAt |-> 0]) :
             page \in {BuiltFrom(Upload(<<>>, <<Named("page.html")>>))}}

InitSession ==
    /\ \E kb \in KnowledgeBases :
        /\ collection_exists = kb.exists
        /\ points = kb.points
        /\ uploaded_files = kb.uploaded_files
        /\ built_documents = kb.documents
    /\ knowledge_base_built = TRUE
    /\ num_adds = 0
    /\ op = [name |-> "init"]
    /\ ret = FALSE
    /\ calls = <<>>
    /\ test_cases = NoneValue
    /\ selected_test_case = NoneValue
    /\ generated_script = NoneStr
    /\ script_test_case = NoneValue
    /\ DocsIdle
    /\ SgIdle

NextSession ==
    \/ GenerateTestCases
    \/ SelectTestCase
    \/ GenerateScript
    \/ ClearKnowledgeBase

SpecSession == InitSession /\ [][NextSession]_vars

NextApp == BuildKnowledgeBase \/ ClearKnowledgeBase

SpecApp == InitApp /\ [][NextApp]_vars

(***************************************************************************)
(* Claims about the session (src/app.py) and the store                     *)
(***************************************************************************)
\* C24 (Spec): when embedding the chunk contents fails, add_documents returns
\* False, sends no upsert and leaves the points of the collection as they were.
C24_EmbeddingFailureWritesNothing ==
    [][(op'.name = "add_documents"
        /\ \E k \in 1..Len(calls') : calls'[k].call = "encode" /\ calls'[k].raised)
       => /\ ret' = FALSE
          /\ \A k \in 1..Len(calls') : calls'[k].call # "upsert"
          /\ points' = points]_vars

C24_Witness ==
    /\ op.name = "add_documents"
    /\ op.n > 0
    /\ Len(calls) = 1
    /\ calls[1].call = "encode" /\ calls[1].raised
    /\ ret = FALSE
    /\ collection_exists
    /\ Cardinality(DOMAIN points) = MaxOld

\* the chunk documents[i] is the payload of some point of pts
Holds(pts, documents, i) ==
    \E id \in DOMAIN pts :
        pts[id] = [content |-> documents[i].content, metadata |-> documents[i].metadata]

\* C23 (SpecApp): after a Build Knowledge Base in which create_collection(force_recreate=True)
\* and add_documents both report success, the collection holds exactly one point
\* per chunk of that build and no point it held before.
C23_BuildReplacesTheCollection ==
    [][(op'.name = "Build Knowledge Base" /\ ret')
       => /\ collection_exists'
          /\ Cardinality(DOMAIN points') = Len(op'.documents)
          /\ \A i \in 1..Len(op'.documents) : Holds(points', op'.documents, i)
          /\ (DOMAIN points') \cap (DOMAIN points) = {}]_vars

C23_Witness ==
    /\ op.name = "Build Knowledge Base"
    /\ ret
    /\ num_adds = MaxBuilds
    /\ Len(op.documents) > 1
    /\ Len(CallsOf(calls, "delete_collection")) = 1
    /\ Cardinality(DOMAIN points) = Len(op.documents)

\* C30 (SpecApp): a Build Knowledge Base in which no uploaded file yields a chunk
\* calls neither create_collection nor add_documents and leaves the collection,
\* knowledge_base_built and uploaded_files as they were.
C30_NothingExtractedNothingTouched ==
    [][(op'.name = "Build Knowledge Base" /\ op'.documents = <<>>)
       => /\ op'.invoked = <<"process_multiple_documents">>
          /\ calls' = <<>>
          /\ UNCHANGED <<collection_exists, points, knowledge_base_built, uploaded_files>>]_vars

C30_Witness ==
    /\ op.name = "Build Knowledge Base"
    /\ op.documents = <<>>
    /\ op.message = "Failed to process documents"
    /\ knowledge_base_built
    /\ uploaded_files # <<>>
    /\ Cardinality(DOMAIN points) > 0

\* C26 (SpecApp): Clear Knowledge Base reports "cleared" and resets the session
\* only when clear_collection returned success.
C26_ClearFailureIsSurfaced ==
    [][(op'.name = "Clear Knowledge Base" /\ ~ret')
       => /\ op'.message # "Knowledge base cleared!"
          /\ UNCHANGED <<knowledge_base_built, test_cases, selected_test_case,
                         generated_script>>]_vars

\* C27 (SpecApp): while knowledge_base_built is true the collection holds every
\* chunk of the most recent Build that succeeded.
C27_BuiltFlagMeansChunksStored ==
    knowledge_base_built =>
        /\ collection_exists
        /\ \A i \in 1..Len(built_documents) : Holds(points, built_documents, i)

(***************************************************************************)
(* Claims about tabs 2 and 3, checked under SpecSession                    *)
(***************************************************************************)
\* C21 (SpecSession): when retrieval returns no chunk, test-case generation still
\* invokes the model exactly once, with the "no context" notice, and ends with
\* success=true and a list of test cases or with success=false and an error.
C21_NoChunksStillOneModelCall ==
    [][(op'.name = "Generate Test Cases" /\ op'.retrieved = 0)
       => /\ op'.requests = 1
          /\ op'.no_context
          /\ \/ /\ ret'.success
                /\ "test_cases" \in DOMAIN ret'
                /\ DOMAIN ret'.test_cases = 1..Len(ret'.test_cases)
             \/ /\ ~ret'.success
                /\ "error" \in DOMAIN ret']_vars

C21_Witness ==
    /\ op.name = "Generate Test Cases"
    /\ op.retrieved = 0
    /\ Len(calls) = 2 /\ ~calls[2].raised
    /\ Cardinality(DOMAIN points) = 0
    /\ ret.success
    /\ ret.test_cases = <<>>
    /\ test_cases = ret

\* C22 (SpecSession): when the model's response does not parse as JSON, test-case
\* generation returns success=false with the response text attached as it came,
\* after a single model call, and the stored test cases stay as they were.
C22_ParseFailureKeepsStoredCases ==
    [][(/\ op'.name = "Generate Test Cases"
        /\ ~op'.response.none
        /\ ~json_loads(op'.response.text).ok)
       => /\ ~ret'.success
          /\ "raw_response" \in DOMAIN ret'
          /\ ret'.raw_response = op'.response.text
          /\ op'.requests = 1
          /\ test_cases' = test_cases]_vars

C22_Witness ==
    /\ op.name = "Generate Test Cases"
    /\ op.response = Some(NotJson)
    /\ ~ret.success
    /\ ret.raw_response = NotJson
    /\ test_cases # NoneValue
    /\ Len(test_cases.test_cases) = 2

\* C28 (SpecSession): a selected test case is one of the test cases of the
\* stored test_cases result.
C28_SelectionBelongsToStoredCases ==
    selected_test_case # NoneValue =>
        /\ test_cases # NoneValue
        /\ \E i \in 1..Len(test_cases.test_cases) :
               test_cases.test_cases[i] = selected_test_case

\* C29 (SpecSession): a generated script goes with a selected test case, and it
\* was generated from the test case that is selected now.
C29_ScriptBelongsToSelection ==
    generated_script # NoneStr =>
        /\ selected_test_case # NoneValue
        /\ script_test_case = selected_test_case

\* C25 (SpecSession): with page.html ingested and all its chunks stored, the
\* markup get_html_content recovers is the file's markup, up to leading and
\* trailing whitespace.
C25_MarkupRoundTrip ==
    [][(/\ op'.name = "Generate Selenium Script"
        /\ uploaded_files = <<"page.html">>
        /\ \A i \in 1..Len(built_documents) : Holds(points, built_documents, i)
        /\ \A k \in 1..Len(calls') : ~calls'[k].raised)
       => op'.html = Some(Strip(Named("page.html").body))]_vars

====
